---- MODULE Spec2Model ----
(***************************************************************************)
(* State-machine model of the cloudstrate mapping workflow:                *)
(*   Phase1Mapper (src/cloudstrate/mapper/phase1.py)                       *)
(*   Phase2Server (src/cloudstrate/mapper/phase2.py)                       *)
(*                                                                         *)
(* Python values are modelled as follows.                                  *)
(*   str        a tuple of one-character strings, <<"o","u","-","a">>      *)
(*   Optional   <<>> is None, <<v>> is the value v                         *)
(*   dict       a function whose domain is the set of its keys             *)
(*   list       a sequence                                                 *)
(* Field names and the fixed words the code assigns ("pending",            *)
(* "tenant_grouping", ...) are TLA+ strings.                               *)
(***************************************************************************)
EXTENDS Integers, Sequences, FiniteSets, TLC

VARIABLES
    state_file,   \* the mapping-state file: <<>> when absent, else <<lines>>
    state_dir,    \* whether the parent directory of the state file exists
    state,        \* Phase2Server.state of each server instance (Optional dict)
    live,         \* the server instances whose constructor has completed
    response,     \* the answer to the last HTTP request
    last,         \* the last HTTP request: who, what, which id, which I/O outcome
    scan_file,    \* content of the scan file given to Phase1Mapper
    self_state,   \* Phase1Mapper._state (Optional dict)
    sys_path,     \* the process-global module search path
    completed,    \* whether a call of Phase1Mapper.run() has returned a state
    result,       \* the last Phase1Mapper call: what was called, what it
                  \* raised, what it returned
    question,     \* the text given to the calls of the AnalystQuery instance
    config,       \* AnalystQuery.config: None or the llm.provider it names
    driver,       \* AnalystQuery._driver: None or the connection it holds
    connections,  \* the connections GraphDatabase.driver has created, each
                  \* "open" or "closed", in creation order
    aq_last,      \* the last AnalystQuery call and its outcome
    threads,      \* the accept/reject requests in flight in server "A", one
                  \* per request thread: where each stands in its handler
    setup_last,   \* the last call of a setup probe and its outcome
    scan_last     \* the last call of AWSScanner.scan and its outcome

vars == <<state_file, state_dir, state, live, response, last,
          scan_file, self_state, sys_path, completed, result,
          question, config, driver, connections, aq_last,
          threads, setup_last, scan_last>>

p2vars == <<state, live, response, last>>
p1vars == <<scan_file, self_state, sys_path, completed, result>>
aqvars == <<question, config, driver, connections, aq_last>>
xvars == <<threads, setup_last, scan_last>>

----------------------------------------------------------------------------
(* Bounds of the model *)

\* longest proposals list of a hand-written state file
MaxProposals == 2

\* most organizational units, accounts and VPCs of a scan result
MaxOUs == 2
MaxAccounts == 2
MaxVpcs == 2

\* most calls of Phase1Mapper.run() that get past reading the scan file
MaxRuns == 2

\* most phrases of a question
MaxPhrases == 1

\* most records a query returns
MaxRows == 2

\* most connections an AnalystQuery instance creates
MaxConnections == 2

\* most questions an AnalystQuery instance translates
MaxQuestions == 2

\* most permission probes of one check_permissions call that do not succeed
MaxFaults == 1

----------------------------------------------------------------------------
(* Python helpers *)

None == <<>>
Some(v) == <<v>>

\* d.get(k)
Get(d, k) == IF k \in DOMAIN d THEN Some(d[k]) ELSE None

\* d.get(k, default)
GetOr(d, k, default) == IF k \in DOMAIN d THEN d[k] ELSE default

\* d.setdefault(k, v): a key the dict has keeps its value
SetItem_IfAbsent(d, k, v) ==
    [x \in (DOMAIN d) \cup {k} |-> IF x \in DOMAIN d THEN d[x] ELSE v]

\* d[k] = v on a dict (adds the key when it is missing)
SetItem(d, k, v) == [x \in (DOMAIN d) \cup {k} |-> IF x = k THEN v ELSE d[x]]

\* all sequences over S of length 0..n
SeqUpTo(S, n) == UNION {[1..k -> S] : k \in 0..n}

\* str(n) for a natural number
RECURSIVE ToStr(_)
ToStr(n) ==
    LET digit == <<"0", "1", "2", "3", "4", "5", "6", "7", "8", "9">>
    IN  IF n < 10 THEN <<digit[n + 1]>>
        ELSE ToStr(n \div 10) \o <<digit[(n % 10) + 1]>>

\* whether s starts with prefix
StartsWith(s, prefix) ==
    /\ Len(s) >= Len(prefix)
    /\ SubSeq(s, 1, Len(prefix)) = prefix

\* s.replace(old, new): every non-overlapping occurrence, left to right
RECURSIVE Replace(_, _, _)
Replace(s, old, new) ==
    IF s = <<>> THEN <<>>
    ELSE IF StartsWith(s, old)
         THEN new \o Replace(SubSeq(s, Len(old) + 1, Len(s)), old, new)
         ELSE <<Head(s)>> \o Replace(Tail(s), old, new)

----------------------------------------------------------------------------
(* YAML: yaml.dump(..., default_flow_style=False) and yaml.safe_load *)

\* the keys of the mapping state in the order yaml.dump emits them (sort_keys)
SortedKeys ==
    <<"aws_accounts", "description", "id", "name", "network_domains",
      "proposals", "security_zones", "source_ou_id", "status", "subtenants",
      "tenants", "type", "vpcs">>

\* one mapping as the sequence of its "key: value" entries, keys sorted
DumpMap(d) ==
    LET ks == SelectSeq(SortedKeys, LAMBDA k : k \in DOMAIN d)
    IN  [i \in 1..Len(ks) |-> <<ks[i], d[ks[i]]>>]

\* yaml.dump that leaves out the keys whose list is empty
yaml_dump_SkipEmpty(doc) ==
    LET ks == SelectSeq(SortedKeys, LAMBDA k : k \in DOMAIN doc /\ doc[k] # <<>>)
    IN  [i \in 1..Len(ks) |->
            <<ks[i], [j \in 1..Len(doc[ks[i]]) |-> DumpMap(doc[ks[i]][j])]>>]

\* the document of a mapping state: every top-level value is a list of mappings
yaml_dump(doc) ==
    LET ks == SelectSeq(SortedKeys, LAMBDA k : k \in DOMAIN doc)
    IN  [i \in 1..Len(ks) |->
            <<ks[i], [j \in 1..Len(doc[ks[i]]) |-> DumpMap(doc[ks[i]][j])]>>]

\* a comment line of a YAML file
Comment(text) == <<"#", <<text>>>>

\* an empty line
Blank == <<"", <<>>>>

\* lines that carry no content
IsComment(line) == line[1] \in {"#", ""}

LoadMap(entries) ==
    [k \in {entries[i][1] : i \in 1..Len(entries)} |->
        LET i == CHOOSE i \in 1..Len(entries) :
                    /\ entries[i][1] = k
                    /\ \A j \in (i+1)..Len(entries) : entries[j][1] # k
        IN  entries[i][2]]

\* yaml.safe_load: comments are skipped; a document without content is None
yaml_safe_load(lines) ==
    LET body == SelectSeq(lines, LAMBDA l : ~IsComment(l))
        top  == LoadMap(body)
    IN  IF body = <<>> THEN None
        ELSE Some([k \in DOMAIN top |->
                     [j \in 1..Len(top[k]) |-> LoadMap(top[k][j])]])

----------------------------------------------------------------------------
(* Phase2Server *)

Servers == {"A", "B"}

\* strings used as proposal ids
P1 == <<"p", "1">>
P2 == <<"p", "2">>
P3 == <<"p", "3">>

\* ids a hand-written state file gives to its proposals
FileIds == {P1, P2}

\* ids a request may name: <proposal_id> of the route is a non-empty string
RequestIds == {P1, P2, P3}

\* outcomes of open(self.state_file, "w") followed by yaml.dump
IOOutcomes == {"ok", "open_fails", "write_fails"}

\* responses: the HTTP status code and the one key of the JSON body
Ok == [code |-> 200, status |-> "ok"]
NotFound == [code |-> 404, error |-> "Proposal not found"]
ServerError == [code |-> 500, error |-> "Internal Server Error"]
NoResponse == [code |-> 0]

\* a request as recorded in last: before is the status the matched proposal
\* had when the request arrived (None when no proposal matched), wrote is
\* whether the request opened the state file for writing
Request(op, s, proposal_id, io, before, wrote) ==
    [op |-> op, server |-> s, id |-> proposal_id, io |-> io,
     before |-> before, wrote |-> wrote]

NoRequest == Request("none", "A", <<>>, "ok", None, FALSE)

\* the loop without its return: the last proposal whose id equals proposal_id
FirstMatch_Last(proposals, proposal_id) ==
    LET hits == {i \in 1..Len(proposals) : Get(proposals[i], "id") = Some(proposal_id)}
    IN  IF hits = {} THEN 0 ELSE CHOOSE i \in hits : \A j \in hits : i >= j

\* index of the first proposal whose id equals proposal_id, 0 when there is none:
\* the loop "for proposal in ...: if proposal.get('id') == proposal_id"
FirstMatch(proposals, proposal_id) ==
    LET hits == {i \in 1..Len(proposals) : Get(proposals[i], "id") = Some(proposal_id)}
    IN  IF hits = {} THEN 0 ELSE CHOOSE i \in hits : \A j \in hits : i <= j

\* _save_state that keeps the state in memory only
SavedFile_NotWritten(old, doc, io, written) == old

\* _save_state that may stop before the last entry and still report success
SavedFile_Partial(old, doc, io, written) ==
    IF io = "open_fails" THEN old ELSE Some(SubSeq(yaml_dump(doc), 1, written))

\* _save_state that reads the file back and keeps a decision found there for
\* every proposal this instance still holds as pending
SavedFile_Merged(old, doc, io, written) ==
    LET disk == IF old = None \/ yaml_safe_load(old[1]) = None THEN <<>>
                ELSE GetOr(yaml_safe_load(old[1])[1], "proposals", <<>>)
        mine == GetOr(doc, "proposals", <<>>)
        kept == [i \in 1..Len(mine) |->
                    IF i <= Len(disk) /\ Get(mine[i], "status") = Some("pending")
                    THEN disk[i] ELSE mine[i]]
    IN  Some(yaml_dump(SetItem(doc, "proposals", kept)))

\* what _save_state leaves in the file: open(..., "w") truncates it, yaml.dump
\* then writes the document; a failing dump leaves the lines written so far
SavedFile(old, doc, io, written) ==
    IF io = "ok" THEN Some(yaml_dump(doc))
    ELSE IF io = "open_fails" THEN old
    ELSE Some(SubSeq(yaml_dump(doc), 1, written))

\* Phase2Server.__init__ on an existing, well-formed file
Construct(s) ==
    /\ s \notin live
    /\ state_file # None
    /\ state' = [state EXCEPT ![s] = yaml_safe_load(state_file[1])]
    /\ live' = live \cup {s}
    /\ UNCHANGED <<state_file, state_dir, response, last>>
    /\ UNCHANGED p1vars
    /\ UNCHANGED aqvars
    /\ UNCHANGED xvars

\* the body shared by accept_proposal and reject_proposal
Decide(s, op, new_status, proposal_id, io) ==
    /\ s \in live
    /\ IF state[s] = None
       THEN \* self.state.get raises AttributeError: Flask answers 500
            /\ response' = ServerError
            /\ last' = Request(op, s, proposal_id, "ok", None, FALSE)
            /\ UNCHANGED <<state, state_file>>
       ELSE LET doc == state[s][1]
                proposals == GetOr(doc, "proposals", <<>>)
                i == FirstMatch(proposals, proposal_id)
            IN  IF i = 0
                THEN /\ response' = NotFound
                     /\ last' = Request(op, s, proposal_id, "ok", None, FALSE)
                     /\ UNCHANGED <<state, state_file>>
                ELSE LET doc2 == [doc EXCEPT !["proposals"][i] =
                                     SetItem(@, "status", new_status)]
                     IN  /\ state' = [state EXCEPT ![s] = Some(doc2)]
                         /\ \E written \in 0..(Len(yaml_dump(doc2)) - 1) :
                               state_file' = SavedFile(state_file, doc2, io, written)
                         /\ response' = IF io = "ok" THEN Ok ELSE ServerError
                         /\ last' = Request(op, s, proposal_id, io,
                                             Get(proposals[i], "status"),
                                             io # "open_fails")
    /\ UNCHANGED <<live, state_dir>>
    /\ UNCHANGED p1vars
    /\ UNCHANGED aqvars
    /\ UNCHANGED xvars

accept_proposal(s, proposal_id, io) == Decide(s, "accept", "accepted", proposal_id, io)

reject_proposal(s, proposal_id, io) == Decide(s, "reject", "rejected", proposal_id, io)

\* GET /
index(s) ==
    /\ s \in live
    /\ response' =
         IF state[s] = None THEN ServerError
         ELSE LET doc == state[s][1]
              IN  [code |-> 200,
                   page |-> <<GetOr(doc, "security_zones", <<>>),
                              GetOr(doc, "subtenants", <<>>),
                              GetOr(doc, "proposals", <<>>),
                              yaml_dump(doc)>>]
    /\ last' = Request("index", s, <<>>, "ok", None, FALSE)
    /\ UNCHANGED <<state, live, state_file, state_dir>>
    /\ UNCHANGED p1vars
    /\ UNCHANGED aqvars
    /\ UNCHANGED xvars

\* GET /api/state
get_state(s) ==
    /\ s \in live
    /\ response' = [code |-> 200, state |-> state[s]]
    /\ last' = Request("get_state", s, <<>>, "ok", None, FALSE)
    /\ UNCHANGED <<state, live, state_file, state_dir>>
    /\ UNCHANGED p1vars
    /\ UNCHANGED aqvars
    /\ UNCHANGED xvars

\* GET /api/proposals
get_proposals(s) ==
    /\ s \in live
    /\ response' =
         IF state[s] = None THEN ServerError
         ELSE [code |-> 200, proposals |-> GetOr(state[s][1], "proposals", <<>>)]
    /\ last' = Request("get_proposals", s, <<>>, "ok", None, FALSE)
    /\ UNCHANGED <<state, live, state_file, state_dir>>
    /\ UNCHANGED p1vars
    /\ UNCHANGED aqvars
    /\ UNCHANGED xvars

\* the process is stopped and Phase2Server is constructed again on the file
Restart(s) ==
    /\ s \in live
    /\ state_file # None
    /\ state' = [state EXCEPT ![s] = yaml_safe_load(state_file[1])]
    /\ UNCHANGED <<live, response, last, state_file, state_dir>>
    /\ UNCHANGED p1vars
    /\ UNCHANGED aqvars
    /\ UNCHANGED xvars

----------------------------------------------------------------------------
(* Phase1Mapper *)

\* the "foundation" directory next to the package
FoundationPath == "foundation"

\* outcomes of opening a file
OpenOutcomes == {"ok", "open_fails"}

Call(name, raised, value) == [call |-> name, raised |-> raised, value |-> value]

NoCall == Call("none", "none", None)

\* the zone made from one organizational unit
Zone(ou) ==
    LET name == GetOr(ou, "name", ou.id)
    IN  [id |-> <<"s", "z", "-">> \o Replace(ou.id, <<"o", "u", "-">>, <<>>),
         name |-> name,
         source_ou_id |-> ou.id,
         description |-> <<"Security zone from OU: ">> \o name]

\* the subtenant made from one account
Subtenant(account) ==
    LET name == GetOr(account, "name", account.id)
    IN  [id |-> <<"s", "t", "-">> \o account.id,
         name |-> name,
         aws_accounts |-> <<account.id>>,
         description |-> <<"Subtenant for account: ">> \o name]

\* the loop with insert(0, zone) in place of append(zone)
SecurityZones_Reversed(scan_data) ==
    LET ous == GetOr(scan_data, "organizational_units", <<>>)
    IN  [i \in 1..Len(ous) |-> Zone(ous[Len(ous) + 1 - i])]

\* the loop over scan_data.get("organizational_units", [])
SecurityZones(scan_data) ==
    LET ous == GetOr(scan_data, "organizational_units", <<>>)
    IN  [i \in 1..Len(ous) |-> Zone(ous[i])]

\* the loop over scan_data.get("accounts", [])
Subtenants(scan_data) ==
    LET accounts == GetOr(scan_data, "accounts", <<>>)
    IN  [i \in 1..Len(accounts) |-> Subtenant(accounts[i])]

\* _generate_proposals with len(...) >= 1 as the grouping condition
generate_proposals_AtLeastOne(st, scan_data) ==
    LET grouping ==
            IF Len(st.subtenants) >= 1
            THEN <<[type |-> "tenant_grouping",
                    description |-> <<"Group subtenants into logical tenants">>,
                    subtenants |-> [i \in 1..Len(st.subtenants) |-> st.subtenants[i].id],
                    status |-> "pending"]>>
            ELSE <<>>
    IN  grouping

\* _generate_proposals with one network_domain proposal for each VPC
generate_proposals_PerVpc(st, scan_data) ==
    LET vpcs == GetOr(scan_data, "vpcs", <<>>)
    IN  [i \in 1..Len(vpcs) |->
            [type |-> "network_domain",
             description |-> <<"Create network domains from ">>
                             \o ToStr(1) \o <<" VPCs">>,
             vpcs |-> <<vpcs[i].id>>,
             status |-> "pending"]]

generate_proposals(st, scan_data) ==
    LET grouping ==
            IF Len(st.subtenants) > 1
            THEN <<[type |-> "tenant_grouping",
                    description |-> <<"Group subtenants into logical tenants">>,
                    subtenants |-> [i \in 1..Len(st.subtenants) |-> st.subtenants[i].id],
                    status |-> "pending"]>>
            ELSE <<>>
        vpcs == GetOr(scan_data, "vpcs", <<>>)
        network ==
            IF vpcs # <<>>
            THEN <<[type |-> "network_domain",
                    description |-> <<"Create network domains from ">>
                                    \o ToStr(Len(vpcs)) \o <<" VPCs">>,
                    vpcs |-> [i \in 1..Len(vpcs) |-> vpcs[i].id],
                    status |-> "pending"]>>
            ELSE <<>>
    IN  grouping \o network

map_basic(scan_data) ==
    LET st == [security_zones |-> SecurityZones(scan_data),
               tenants |-> <<>>,
               subtenants |-> Subtenants(scan_data),
               network_domains |-> <<>>,
               proposals |-> <<>>]
    IN  [st EXCEPT !.proposals = generate_proposals(st, scan_data)]

\* whether _map_basic raises KeyError: ou['id'] or account['id'] is missing
MapBasicRaises(scan_data) ==
    \/ \E i \in 1..Len(GetOr(scan_data, "organizational_units", <<>>)) :
          "id" \notin DOMAIN scan_data.organizational_units[i]
    \/ \E i \in 1..Len(GetOr(scan_data, "accounts", <<>>)) :
          "id" \notin DOMAIN scan_data.accounts[i]

\* _map_basic that assigns self._state where it creates the empty state
StateAfterRun_AssignedFirst(old, scan_data) ==
    IF MapBasicRaises(scan_data)
    THEN Some([security_zones |-> <<>>, tenants |-> <<>>, subtenants |-> <<>>,
               network_domains |-> <<>>, proposals |-> <<>>])
    ELSE Some(map_basic(scan_data))

\* self._state after a run() that has parsed scan_data: _map_basic assigns it
\* as its last statement
StateAfterRun(old, scan_data) ==
    IF MapBasicRaises(scan_data) THEN old ELSE Some(map_basic(scan_data))

\* Phase1Mapper.run() with no decisions file; the foundation mapper is not
\* importable, so the ImportError branch is taken
run(io) ==
    /\ Len(sys_path) < MaxRuns
    /\ IF io = "open_fails"
       THEN /\ result' = Call("run", "OSError", None)
            /\ UNCHANGED <<self_state, sys_path, completed>>
       ELSE IF scan_file = None
       THEN /\ result' = Call("run", "JSONDecodeError", None)
            /\ UNCHANGED <<self_state, sys_path, completed>>
       ELSE /\ sys_path' = <<FoundationPath>> \o sys_path
            /\ self_state' = StateAfterRun(self_state, scan_file[1])
            /\ IF MapBasicRaises(scan_file[1])
               THEN /\ result' = Call("run", "KeyError", None)
                    /\ UNCHANGED completed
               ELSE /\ result' = Call("run", "none", Some(map_basic(scan_file[1])))
                    /\ completed' = TRUE
    /\ UNCHANGED <<scan_file, state_file, state_dir>>
    /\ UNCHANGED p2vars
    /\ UNCHANGED aqvars
    /\ UNCHANGED xvars

\* the two comment lines and the empty line save_state writes first
Header ==
    <<Comment("Cloudstrate Mapping State"),
      Comment("Generated by Phase 1 Mapper"),
      Blank>>

\* Phase1Mapper.save_state(output_path)
save_state(io) ==
    /\ IF self_state = None
       THEN /\ result' = Call("save_state", "RuntimeError", None)
            /\ UNCHANGED <<state_file, state_dir>>
       ELSE /\ state_dir' = TRUE
            /\ IF io = "open_fails"
               THEN /\ result' = Call("save_state", "OSError", None)
                    /\ UNCHANGED state_file
               ELSE /\ result' = Call("save_state", "none", None)
                    /\ state_file' = Some(Header \o yaml_dump(self_state[1]))
    /\ UNCHANGED <<scan_file, self_state, sys_path, completed>>
    /\ UNCHANGED p2vars
    /\ UNCHANGED aqvars
    /\ UNCHANGED xvars

----------------------------------------------------------------------------
(* AnalystQuery *)

\* the letters str.upper() and str.lower() map to each other
LowerCase ==
    <<"a", "b", "c", "d", "e", "f", "g", "h", "i", "j", "k", "l", "m",
      "n", "o", "p", "q", "r", "s", "t", "u", "v", "w", "x", "y", "z">>

UpperCase ==
    <<"A", "B", "C", "D", "E", "F", "G", "H", "I", "J", "K", "L", "M",
      "N", "O", "P", "Q", "R", "S", "T", "U", "V", "W", "X", "Y", "Z">>

\* c with the letter from[i] replaced by to[i]
MapChar(c, from, to) ==
    IF \E i \in 1..Len(from) : from[i] = c
    THEN to[CHOOSE i \in 1..Len(from) : from[i] = c]
    ELSE c

RECURSIVE MapChars(_, _, _)
\* s with every character mapped by MapChar
MapChars(s, from, to) ==
    IF s = <<>> THEN <<>>
    ELSE <<MapChar(Head(s), from, to)>> \o MapChars(Tail(s), from, to)

\* str.upper()
Upper(s) == MapChars(s, LowerCase, UpperCase)

\* str.lower()
Lower(s) == MapChars(s, UpperCase, LowerCase)

\* the characters str.strip() removes
Whitespace == {" ", "\t", "\n", "\r"}

\* str.strip(): leading and trailing whitespace removed
Strip(s) ==
    LET kept == {i \in 1..Len(s) : s[i] \notin Whitespace}
    IN  IF kept = {} THEN <<>>
        ELSE SubSeq(s, CHOOSE i \in kept : \A j \in kept : i <= j,
                       CHOOSE i \in kept : \A j \in kept : i >= j)

\* sub in s
Contains(s, sub) ==
    \E i \in 0..(Len(s) - Len(sub)) : SubSeq(s, i + 1, i + Len(sub)) = sub

\* the Cypher templates of _translate_basic, character by character
AccountsQuery ==
    <<"M", "A", "T", "C", "H", " ", "(", "a", ":", "A", "W", "S", "A",
      "c", "c", "o", "u", "n", "t", ")", " ", "R", "E", "T", "U", "R",
      "N", " ", "a", ".", "n", "a", "m", "e", " ", "a", "s", " ", "n",
      "a", "m", "e", ",", " ", "a", ".", "i", "d", " ", "a", "s", " ",
      "i", "d", " ", "L", "I", "M", "I", "T", " ", "5", "0">>

ProductionQuery ==
    <<"M", "A", "T", "C", "H", " ", "(", "a", ":", "A", "W", "S", "A",
      "c", "c", "o", "u", "n", "t", ")", " ", "W", "H", "E", "R", "E",
      " ", "a", ".", "n", "a", "m", "e", " ", "C", "O", "N", "T", "A",
      "I", "N", "S", " ", "'", "p", "r", "o", "d", "'", " ", "O", "R",
      " ", "a", ".", "n", "a", "m", "e", " ", "C", "O", "N", "T", "A",
      "I", "N", "S", " ", "'", "p", "r", "o", "d", "u", "c", "t", "i",
      "o", "n", "'", " ", "R", "E", "T", "U", "R", "N", " ", "a", ".",
      "n", "a", "m", "e", " ", "a", "s", " ", "n", "a", "m", "e", ",",
      " ", "a", ".", "i", "d", " ", "a", "s", " ", "i", "d">>

VpcsQuery ==
    <<"M", "A", "T", "C", "H", " ", "(", "v", ":", "V", "P", "C", ")",
      " ", "R", "E", "T", "U", "R", "N", " ", "v", ".", "i", "d", " ",
      "a", "s", " ", "i", "d", ",", " ", "v", ".", "c", "i", "d", "r",
      " ", "a", "s", " ", "c", "i", "d", "r", " ", "L", "I", "M", "I",
      "T", " ", "5", "0">>

RolesQuery ==
    <<"M", "A", "T", "C", "H", " ", "(", "r", ":", "I", "A", "M", "R",
      "o", "l", "e", ")", " ", "R", "E", "T", "U", "R", "N", " ", "r",
      ".", "n", "a", "m", "e", " ", "a", "s", " ", "n", "a", "m", "e",
      ",", " ", "r", ".", "a", "r", "n", " ", "a", "s", " ", "a", "r",
      "n", " ", "L", "I", "M", "I", "T", " ", "5", "0">>

CrossAccountQuery ==
    <<"M", "A", "T", "C", "H", " ", "(", "r", ":", "I", "A", "M", "R",
      "o", "l", "e", ")", "-", "[", ":", "T", "R", "U", "S", "T", "S",
      "]", "-", ">", "(", "a", ":", "A", "W", "S", "A", "c", "c", "o",
      "u", "n", "t", ")", " ", "R", "E", "T", "U", "R", "N", " ", "r",
      ".", "n", "a", "m", "e", " ", "a", "s", " ", "r", "o", "l", "e",
      ",", " ", "a", ".", "n", "a", "m", "e", " ", "a", "s", " ", "t",
      "r", "u", "s", "t", "e", "d", "_", "a", "c", "c", "o", "u", "n",
      "t", " ", "L", "I", "M", "I", "T", " ", "5", "0">>

SecurityGroupsQuery ==
    <<"M", "A", "T", "C", "H", " ", "(", "s", "g", ":", "S", "e", "c",
      "u", "r", "i", "t", "y", "G", "r", "o", "u", "p", ")", " ", "R",
      "E", "T", "U", "R", "N", " ", "s", "g", ".", "n", "a", "m", "e",
      " ", "a", "s", " ", "n", "a", "m", "e", ",", " ", "s", "g", ".",
      "i", "d", " ", "a", "s", " ", "i", "d", " ", "L", "I", "M", "I",
      "T", " ", "5", "0">>

SubnetsQuery ==
    <<"M", "A", "T", "C", "H", " ", "(", "s", ":", "S", "u", "b", "n",
      "e", "t", ")", " ", "R", "E", "T", "U", "R", "N", " ", "s", ".",
      "i", "d", " ", "a", "s", " ", "i", "d", ",", " ", "s", ".", "c",
      "i", "d", "r", " ", "a", "s", " ", "c", "i", "d", "r", ",", " ",
      "s", ".", "a", "v", "a", "i", "l", "a", "b", "i", "l", "i", "t",
      "y", "_", "z", "o", "n", "e", " ", "a", "s", " ", "a", "z", " ",
      "L", "I", "M", "I", "T", " ", "5", "0">>

\* the ordered table of _translate_basic: keywords and template of each entry
patterns ==
    <<
      [keywords |-> <<<<"a", "c", "c", "o", "u", "n", "t", "s">>,
                   <<"a", "w", "s", " ", "a", "c", "c", "o", "u", "n", "t", "s">>,
                   <<"a", "l", "l", " ", "a", "c", "c", "o", "u", "n", "t", "s">>>>,
       cypher |-> AccountsQuery],
      [keywords |-> <<<<"p", "r", "o", "d", "u", "c", "t", "i", "o", "n">>,
                   <<"p", "r", "o", "d", " ", "a", "c", "c", "o", "u", "n", "t", "s">>>>,
       cypher |-> ProductionQuery],
      [keywords |-> <<<<"v", "p", "c", "s">>,
                   <<"v", "i", "r", "t", "u", "a", "l", " ", "p", "r", "i", "v", "a",
                       "t", "e", " ", "c", "l", "o", "u", "d", "s">>,
                   <<"n", "e", "t", "w", "o", "r", "k", "s">>>>,
       cypher |-> VpcsQuery],
      [keywords |-> <<<<"i", "a", "m", " ", "r", "o", "l", "e", "s">>,
                   <<"r", "o", "l", "e", "s">>>>,
       cypher |-> RolesQuery],
      [keywords |-> <<<<"c", "r", "o", "s", "s", "-", "a", "c", "c", "o", "u", "n", "t">>,
                   <<"c", "r", "o", "s", "s", " ", "a", "c", "c", "o", "u", "n", "t">>,
                   <<"t", "r", "u", "s", "t", " ", "r", "e", "l", "a", "t", "i", "o",
                       "n", "s", "h", "i", "p", "s">>>>,
       cypher |-> CrossAccountQuery],
      [keywords |-> <<<<"s", "e", "c", "u", "r", "i", "t", "y", " ", "g", "r", "o", "u",
                       "p", "s">>,
                   <<"s", "g", "s">>>>,
       cypher |-> SecurityGroupsQuery],
      [keywords |-> <<<<"s", "u", "b", "n", "e", "t", "s">>>>,
       cypher |-> SubnetsQuery]
    >>

\* the tuple of prefixes _is_cypher tests
cypher_keywords ==
    <<<<"M", "A", "T", "C", "H">>,
      <<"R", "E", "T", "U", "R", "N">>,
      <<"C", "R", "E", "A", "T", "E">>,
      <<"M", "E", "R", "G", "E">>,
      <<"D", "E", "L", "E", "T", "E">>,
      <<"C", "A", "L", "L">>,
      <<"W", "I", "T", "H">>>>

\* the phrases questions are made of: queries in several spellings, a query
\* keyword that starts a word or stands inside the text, questions for the
\* entries of the keyword table, and a question for none of them
MatchUpper ==
    <<"M", "A", "T", "C", "H", " ", "(", "n", ")", " ", "R", "E", "T",
      "U", "R", "N", " ", "n">>

MatchLower ==
    <<"m", "a", "t", "c", "h", " ", "(", "n", ")", " ", "r", "e", "t",
      "u", "r", "n", " ", "n">>

ReturnPadded ==
    <<" ", " ", "R", "e", "t", "u", "r", "n", " ", "1", " ">>

CallLabels ==
    <<"C", "A", "L", "L", " ", "d", "b", ".", "l", "a", "b", "e", "l",
      "s", "(", ")">>

Within ==
    <<"W", "i", "t", "h", "i", "n", " ", "p", "r", "o", "d", "u", "c",
      "t", "i", "o", "n">>

ShowMatch ==
    <<"s", "h", "o", "w", " ", "M", "A", "T", "C", "H", " ", "(", "n",
      ")">>

ShowAllAccounts ==
    <<"S", "h", "o", "w", " ", "a", "l", "l", " ", "a", "c", "c", "o",
      "u", "n", "t", "s">>

WhatVpcs ==
    <<"W", "h", "a", "t", " ", "V", "P", "C", "s", " ", "e", "x", "i",
      "s", "t", "?">>

ShowIamRoles ==
    <<"S", "h", "o", "w", " ", "I", "A", "M", " ", "r", "o", "l", "e",
      "s">>

ShowProductionAccounts ==
    <<"S", "h", "o", "w", " ", "p", "r", "o", "d", "u", "c", "t", "i",
      "o", "n", " ", "a", "c", "c", "o", "u", "n", "t", "s">>

CrossAccountRoles ==
    <<"c", "r", "o", "s", "s", "-", "a", "c", "c", "o", "u", "n", "t",
      " ", "r", "o", "l", "e", "s">>

SecurityGroups ==
    <<"s", "e", "c", "u", "r", "i", "t", "y", " ", "g", "r", "o", "u",
      "p", "s", " ", "i", "n", " ", "s", "u", "b", "n", "e", "t", "s">>

Subnets ==
    <<"S", "u", "b", "n", "e", "t", "s">>

SomethingRandom ==
    <<"S", "o", "m", "e", "t", "h", "i", "n", "g", " ", "r", "a", "n",
      "d", "o", "m">>

Phrases ==
    {MatchUpper, MatchLower, ReturnPadded, CallLabels,
     Within, ShowMatch, ShowAllAccounts, WhatVpcs,
     ShowIamRoles, ShowProductionAccounts, CrossAccountRoles, SecurityGroups,
     Subnets, SomethingRandom}

\* the questions of the tests that run a query
ReturnOne ==
    <<"R", "E", "T", "U", "R", "N", " ", "1">>

ShowAllAwsAccounts ==
    <<"S", "h", "o", "w", " ", "a", "l", "l", " ", "A", "W", "S", " ",
      "a", "c", "c", "o", "u", "n", "t", "s">>

\* a query, a translatable question and an untranslatable one
SampleQuestions == {ReturnOne, ShowAllAwsAccounts, SomethingRandom}

\* _is_cypher without strip()
is_cypher_NoStrip(text) ==
    LET upper == Upper(text)
    IN  \E i \in 1..Len(cypher_keywords) : StartsWith(upper, cypher_keywords[i])

\* _is_cypher(text): text.strip().upper().startswith(cypher_keywords)
is_cypher(text) ==
    LET upper == Upper(Strip(text))
    IN  \E i \in 1..Len(cypher_keywords) : StartsWith(upper, cypher_keywords[i])

\* any(kw in question_lower for kw in keywords)
AnyKeyword(keywords, question_lower) ==
    \E k \in 1..Len(keywords) : Contains(question_lower, keywords[k])

\* _translate_basic that returns the accounts query when no entry matches
translate_basic_Default(text) ==
    LET question_lower == Lower(text)
        hits == {i \in 1..Len(patterns) :
                    AnyKeyword(patterns[i].keywords, question_lower)}
    IN  IF hits = {} THEN Some(AccountsQuery)
        ELSE Some(patterns[CHOOSE i \in hits : \A j \in hits : i <= j].cypher)

\* _translate_basic that keeps looking and returns the last entry that matches
translate_basic_LastMatch(text) ==
    LET question_lower == Lower(text)
        hits == {i \in 1..Len(patterns) :
                    AnyKeyword(patterns[i].keywords, question_lower)}
    IN  IF hits = {} THEN None
        ELSE Some(patterns[CHOOSE i \in hits : \A j \in hits : i >= j].cypher)

\* _translate_basic(question): the loop returns at the first entry that matches
translate_basic(text) ==
    LET question_lower == Lower(text)
        hits == {i \in 1..Len(patterns) :
                    AnyKeyword(patterns[i].keywords, question_lower)}
    IN  IF hits = {} THEN None
        ELSE Some(patterns[CHOOSE i \in hits : \A j \in hits : i <= j].cypher)

\* _translate_with_llm that answers every question with the subnets query
translate_with_llm_Answers(text) == Some(SubnetsQuery)

\* _translate_with_llm(question): returns None
translate_with_llm(text) == None

\* the values of config: None, or the llm.provider of a CloudstrateConfig
Configs == {None, Some("disabled"), Some("gemini")}

\* the i-th record a query returns
Row(i) == [name |-> <<"Account">> \o ToStr(i), id |-> ToStr(111 * i)]

\* what the database does with a query: it returns up to MaxRows records,
\* GraphDatabase cannot be imported, driver.session() raises, or
\* session.run() raises; message is str(e) of the exception
DbOutcomes ==
    {[kind |-> "rows", rows |-> [i \in 1..n |-> Row(i)], message |-> <<>>] :
        n \in 0..MaxRows}
    \cup {[kind |-> "import_fails", rows |-> <<>>,
           message |-> <<"No module named 'neo4j'">>],
          [kind |-> "session_fails", rows |-> <<>>,
           message |-> <<"Connection refused">>],
          [kind |-> "run_fails", rows |-> <<>>,
           message |-> <<"Query failed">>]}

\* _get_driver that creates a driver on every call
get_driver_AlwaysNew(d, conns) ==
    [driver |-> Some(Len(conns) + 1), connections |-> Append(conns, "open")]

\* _get_driver(): the driver is created on the first call and kept; a
\* connection is named by its position in connections
get_driver(d, conns) ==
    IF d = None
    THEN [driver |-> Some(Len(conns) + 1), connections |-> Append(conns, "open")]
    ELSE [driver |-> d, connections |-> conns]

\* close() that leaves self._driver set
close_driver_KeepsReference(d, conns) ==
    IF d # None
    THEN [driver |-> d, connections |-> [conns EXCEPT ![d[1]] = "closed"],
          released |-> d[1]]
    ELSE [driver |-> d, connections |-> conns, released |-> 0]

\* the body of close(): released is the connection driver.close() was called
\* on, 0 when it was called on none
close_driver(d, conns) ==
    IF d # None
    THEN [driver |-> None, connections |-> [conns EXCEPT ![d[1]] = "closed"],
          released |-> d[1]]
    ELSE [driver |-> d, connections |-> conns, released |-> 0]

\* a call as recorded in aq_last: what was called, what it raised, the dict
\* it returned, the text session.run() received, the connection it used or
\* released (0 for none), whether _translate_with_llm was called, what
\* _translate_basic returned when it was called, and what the database did
\* ("none" when the call did not reach _execute_cypher)
AQCall(name, raised, value, sent, conn, llm, translated, db) ==
    [call |-> name, raised |-> raised, result |-> value, sent |-> sent,
     conn |-> conn, llm |-> llm, translated |-> translated, db |-> db]

NoAQCall == AQCall("none", "none", None, None, 0, FALSE, None, "none")

\* _execute_cypher whose try block ends before session.run()
execute_cypher_RunOutsideTry(d, conns, cypher, db) ==
    IF d = None /\ db.kind = "import_fails"
    THEN [raised |-> "ImportError", result |-> None, sent |-> None, conn |-> 0,
          driver |-> d, connections |-> conns]
    ELSE LET g == get_driver(d, conns)
         IN  [raised |-> IF db.kind = "run_fails" THEN "Exception" ELSE "none",
              result |->
                 IF db.kind = "run_fails" THEN None
                 ELSE Some(IF db.kind = "rows"
                           THEN [cypher |-> Some(cypher),
                                 data |-> db.rows,
                                 explanation |-> <<"Executed Cypher query, returned ">>
                                                 \o ToStr(Len(db.rows))
                                                 \o <<" results.">>]
                           ELSE [cypher |-> Some(cypher),
                                 data |-> <<>>,
                                 error |-> db.message]),
              sent |-> IF db.kind \in {"rows", "run_fails"}
                       THEN Some(cypher) ELSE None,
              conn |-> g.driver[1],
              driver |-> g.driver,
              connections |-> g.connections]

\* _execute_cypher(cypher) on driver d: what it raises or returns, what the
\* session received, and the driver and connections it leaves
execute_cypher(d, conns, cypher, db) ==
    IF d = None /\ db.kind = "import_fails"
    THEN [raised |-> "ImportError", result |-> None, sent |-> None, conn |-> 0,
          driver |-> d, connections |-> conns]
    ELSE LET g == get_driver(d, conns)
         IN  [raised |-> "none",
              result |->
                 Some(IF db.kind = "rows"
                      THEN [cypher |-> Some(cypher),
                            data |-> db.rows,
                            explanation |-> <<"Executed Cypher query, returned ">>
                                            \o ToStr(Len(db.rows))
                                            \o <<" results.">>]
                      ELSE [cypher |-> Some(cypher),
                            data |-> <<>>,
                            error |-> db.message]),
              sent |-> IF db.kind \in {"rows", "run_fails"}
                       THEN Some(cypher) ELSE None,
              conn |-> g.driver[1],
              driver |-> g.driver,
              connections |-> g.connections]

\* the untranslatable result without the question
Untranslatable_NoQuestion(text) ==
    [cypher |-> None,
     data |-> <<>>,
     error |-> <<"Could not translate question to Cypher. ",
                 "LLM integration required for natural language queries.">>]

\* the result of a question no translation produced a query for
Untranslatable(text) ==
    [cypher |-> None,
     data |-> <<>>,
     error |-> <<"Could not translate question to Cypher. ",
                 "LLM integration required for natural language queries.">>,
     original_question |-> text]

\* AnalystQuery.execute(question): direct is the outcome of _is_cypher, llm
\* whether _translate_with_llm is called and cypher what it returns, called
\* whether _translate_basic is called and basic what it returns, query the
\* text handed to _execute_cypher (None when translation gave none)
execute(db) ==
    \E direct \in {is_cypher(question)} :
    \E llm \in {~direct /\ config # None /\ config[1] # "disabled"} :
    \E cypher \in {IF llm THEN translate_with_llm(question) ELSE None} :
    \E called \in {~direct /\ cypher = None} :
    \E basic \in {IF called THEN translate_basic(question) ELSE None} :
    \E query \in {IF direct THEN Some(question)
                  ELSE IF cypher # None THEN cypher ELSE basic} :
    \E creates \in {driver = None /\ query # None} :
        /\ db.kind = "import_fails" => creates
        /\ (creates /\ db.kind # "import_fails")
              => Len(connections) < MaxConnections
        /\ IF direct
           THEN UNCHANGED sys_path
           ELSE /\ Len(sys_path) < MaxQuestions
                /\ sys_path' = <<FoundationPath>> \o sys_path
        /\ IF query # None
           THEN LET r == execute_cypher(driver, connections, query[1], db)
                IN  /\ aq_last' =
                         AQCall("execute", r.raised,
                                IF direct \/ r.raised # "none" THEN r.result
                                ELSE Some(SetItem(r.result[1],
                                         "original_question", question)),
                                r.sent, r.conn, llm,
                                IF called THEN Some(basic) ELSE None,
                                db.kind)
                    /\ driver' = r.driver
                    /\ connections' = r.connections
           ELSE /\ aq_last' = AQCall("execute", "none",
                                     Some(Untranslatable(question)),
                                     None, 0, llm, Some(basic), "none")
                /\ UNCHANGED <<driver, connections>>
        /\ UNCHANGED <<question, config>>
        /\ UNCHANGED <<state_file, state_dir, scan_file, self_state,
                       completed, result>>
        /\ UNCHANGED p2vars
        /\ UNCHANGED xvars

\* a direct call of _translate_basic(question)
test_translate_basic ==
    /\ aq_last' = AQCall("_translate_basic", "none", None, None, 0, FALSE,
                         Some(translate_basic(question)), "none")
    /\ UNCHANGED <<question, config, driver, connections>>
    /\ UNCHANGED <<state_file, state_dir>>
    /\ UNCHANGED <<p1vars, p2vars>>
    /\ UNCHANGED xvars

\* AnalystQuery.close()
close ==
    /\ LET c == close_driver(driver, connections)
       IN  /\ driver' = c.driver
           /\ connections' = c.connections
           /\ aq_last' = AQCall("close", "none", None, None, c.released, FALSE,
                                None, "none")
    /\ UNCHANGED <<question, config>>
    /\ UNCHANGED <<state_file, state_dir>>
    /\ UNCHANGED <<p1vars, p2vars>>
    /\ UNCHANGED xvars

\* AnalystQuery.__enter__(): returns self
enter ==
    /\ aq_last' = AQCall("__enter__", "none", None, None, 0, FALSE, None, "none")
    /\ UNCHANGED <<question, config, driver, connections>>
    /\ UNCHANGED <<state_file, state_dir>>
    /\ UNCHANGED <<p1vars, p2vars>>
    /\ UNCHANGED xvars

\* AnalystQuery.__exit__(exc_type, exc_val, exc_tb) at the end of a with
\* block; exc says whether the block raised. It returns None, so the
\* exception of the block is raised again after it
exit(exc) ==
    /\ LET c == close_driver(driver, connections)
       IN  /\ driver' = c.driver
           /\ connections' = c.connections
           /\ aq_last' = AQCall("__exit__", IF exc THEN "BlockError" ELSE "none",
                                None, None, c.released, FALSE, None, "none")
    /\ UNCHANGED <<question, config>>
    /\ UNCHANGED <<state_file, state_dir>>
    /\ UNCHANGED <<p1vars, p2vars>>
    /\ UNCHANGED xvars

RECURSIVE Join(_)
\* " ".join(words)
Join(words) ==
    IF words = <<>> THEN <<>>
    ELSE IF Len(words) = 1 THEN words[1]
    ELSE words[1] \o <<" ">> \o Join(Tail(words))

\* the questions: up to MaxPhrases phrases with a blank between them
Questions == {Join(ws) : ws \in SeqUpTo(Phrases, MaxPhrases)}

\* no AnalystQuery has been constructed
AQIdle ==
    /\ question = <<>>
    /\ config = None
    /\ driver = None
    /\ connections = <<>>
    /\ aq_last = NoAQCall

----------------------------------------------------------------------------
(* Scan results *)

\* scan results: organizational units, accounts and VPCs
OUs ==
    {[id |-> <<"o", "u", "-", "a">>, name |-> <<"P">>],
     [id |-> <<"a">>],
     [name |-> <<"X">>]}

Accounts ==
    {[id |-> <<"1">>, name |-> <<"A">>],
     [id |-> <<"2">>]}

Vpcs == {[id |-> <<"v", "1">>], [id |-> <<"v", "2">>]}

\* a key of the scan result is missing or holds a list
WithKey(key, lists) == {<<>>} \cup {<<<<key, l>>>> : l \in lists}

\* the scan files: one that is not JSON, and the scan results
ScanFiles ==
    {None}
    \cup {Some(LoadMap(o \o a \o v)) :
            o \in WithKey("organizational_units", SeqUpTo(OUs, MaxOUs)),
            a \in WithKey("accounts", SeqUpTo(Accounts, MaxAccounts)),
            v \in WithKey("vpcs", SeqUpTo(Vpcs, MaxVpcs))}

(* Request threads of one Phase2Server *)

\* app.run serves each request in a thread of its own; the threads of server
\* "A" share self.state and the state file
Threads == {"t1", "t2"}

\* where a request thread stands: "idle" before the request, "set" after the
\* handler assigned the status, "open" after _save_state opened the file,
\* "done" after the response; overlap records that the file was opened while
\* another thread stood between its assignment and the end of its write
Thread(pc, op, proposal_id, code, overlap) ==
    [pc |-> pc, op |-> op, id |-> proposal_id, code |-> code,
     overlap |-> overlap]

NoThread == Thread("idle", "none", <<>>, 0, FALSE)

\* open(self.state_file, "r+"): the content stays
Truncated_Kept(old) == old

\* open(self.state_file, "w"): the file exists and is empty
Truncated(old) == Some(<<>>)

\* yaml.dump(self.state, f) through a handle opened by this request: the
\* document goes to the start of the file, whatever another handle wrote
\* beyond its end stays
Written(old, doc) ==
    LET content == yaml_dump(doc)
        before  == IF old = None THEN <<>> ELSE old[1]
    IN  Some(content \o SubSeq(before, Len(content) + 1, Len(before)))

\* the handler up to and including proposal["status"] = ...
SetStatus(t, op, new_status, proposal_id) ==
    /\ "A" \in live
    /\ threads[t].pc = "idle"
    /\ IF state["A"] = None
       THEN /\ threads' = [threads EXCEPT ![t] =
                             Thread("done", op, proposal_id, ServerError.code, FALSE)]
            /\ UNCHANGED state
       ELSE LET doc == state["A"][1]
                proposals == GetOr(doc, "proposals", <<>>)
                i == FirstMatch(proposals, proposal_id)
            IN  IF i = 0
                THEN /\ threads' = [threads EXCEPT ![t] =
                                      Thread("done", op, proposal_id, NotFound.code, FALSE)]
                     /\ UNCHANGED state
                ELSE /\ state' = [state EXCEPT !["A"] =
                                    Some([doc EXCEPT !["proposals"][i] =
                                            SetItem(@, "status", new_status)])]
                     /\ threads' = [threads EXCEPT ![t] =
                                      Thread("set", op, proposal_id, 0, FALSE)]
    /\ UNCHANGED <<state_file, state_dir, live, response, last>>
    /\ UNCHANGED <<p1vars, aqvars, setup_last, scan_last>>

\* _save_state: open(self.state_file, "w")
OpenForWrite(t) ==
    /\ threads[t].pc = "set"
    /\ state_file' = Truncated(state_file)
    /\ threads' = [threads EXCEPT ![t] =
                     [@ EXCEPT !.pc = "open",
                               !.overlap = \E u \in Threads \ {t} :
                                              threads[u].pc \in {"set", "open"}]]
    /\ UNCHANGED <<state_dir, p2vars>>
    /\ UNCHANGED <<p1vars, aqvars, setup_last, scan_last>>

\* _save_state: yaml.dump(self.state, f), then the handler returns ok
DumpState(t) ==
    /\ threads[t].pc = "open"
    /\ state_file' = Written(state_file, state["A"][1])
    /\ threads' = [threads EXCEPT ![t] = [@ EXCEPT !.pc = "done", !.code = Ok.code]]
    /\ UNCHANGED <<state_dir, p2vars>>
    /\ UNCHANGED <<p1vars, aqvars, setup_last, scan_last>>

----------------------------------------------------------------------------
(* Setup probes *)

\* str(e) of an exception a client raises; an exception without arguments
\* has the empty text
Messages == {<<>>, <<"m">>}

\* the password or token a probe is constructed with: None, "" or a value
Secrets == {None, Some(<<>>), Some(<<"s">>)}

\* "not self.password", "not self.token"
Missing(secret) == secret = None \/ secret[1] = <<>>

\* one AWSPermissionCheck
Check(service, action, allowed, error) ==
    [service |-> service, action |-> action, allowed |-> allowed,
     error |-> error]

\* what a probe does: the exception it raises ("none" when it returns), and
\* of the status it returns connected/authenticated, error, org_accessible or
\* is_organization_account, and permission_checks; contacted is whether the
\* probe reached the code that uses the client library
Status(raised, authenticated, error, organization, contacted, checks) ==
    [raised |-> raised, authenticated |-> authenticated, error |-> error,
     organization |-> organization, contacted |-> contacted,
     checks |-> checks]

\* the outcomes of the Neo4j client: the package cannot be imported, the
\* server refuses the credentials, the server is not reachable, another
\* exception
Neo4jOutcomes == {"ok", "import_fails", "auth_error", "unavailable", "error"}

\* Neo4jSetup.check_connection; AuthError and ServiceUnavailable are names
\* the function binds by the import inside its try, so when the import fails
\* the first except clause reads an unbound local
check_connection(password, kind, m) ==
    IF Missing(password)
    THEN Status("none", FALSE, Some(<<"Neo4j password not provided">>),
                FALSE, FALSE, <<>>)
    ELSE CASE kind = "ok" ->
                Status("none", TRUE, None, FALSE, TRUE, <<>>)
           [] kind = "import_fails" ->
                Status("UnboundLocalError", FALSE, None, FALSE, TRUE, <<>>)
           [] kind = "auth_error" ->
                Status("none", FALSE, Some(<<"Authentication failed: ">> \o m),
                       FALSE, TRUE, <<>>)
           [] kind = "unavailable" ->
                Status("none", FALSE,
                       Some(<<"Neo4j not available at ", "uri", ": ">> \o m),
                       FALSE, TRUE, <<>>)
           [] OTHER ->
                Status("none", FALSE, Some(m), FALSE, TRUE, <<>>)

\* the outcomes of the calls check_credentials makes before it builds its
\* status: importing boto3, creating the session, creating the sts client,
\* get_caller_identity
AwsOutcomes == {"ok", "import_fails", "session_fails", "client_fails",
                "identity_fails"}

\* the outcomes of a sub-probe of check_credentials
SubOutcomes == {"ok", "error"}

\* AWSSetup.check_credentials: a failing alias or organization sub-probe is
\* swallowed, everything else becomes a status with the exception's text
check_credentials(kind, m, alias, organization) ==
    IF kind = "ok"
    THEN Status("none", TRUE, None, organization = "ok", TRUE, <<>>)
    ELSE Status("none", FALSE, Some(m), FALSE, TRUE, <<>>)

\* the outcomes of PyGithub's user lookup
GithubOutcomes == {"ok", "import_fails", "user_fails"}

\* the organization check of check_token: no organization configured, the
\* organization is readable, GithubException with status 404, 403 or another
\* status, an exception that is no GithubException
OrgOutcomes == {"none", "ok", "not_found", "denied", "other_status", "error"}

\* GitHubSetup.check_token
check_token(token, kind, m, organization) ==
    IF Missing(token)
    THEN Status("none", FALSE,
                Some(<<"GitHub token not found. Set ", "token_env",
                       " environment variable.">>),
                FALSE, FALSE, <<>>)
    ELSE IF kind # "ok" \/ organization = "error"
    THEN Status("none", FALSE, Some(m), FALSE, TRUE, <<>>)
    ELSE Status("none", TRUE,
                CASE organization = "not_found" ->
                        Some(<<"Organization '", "organization", "' not found">>)
                  [] organization = "denied" ->
                        Some(<<"Access denied to organization '", "organization", "'">>)
                  [] OTHER -> None,
                organization = "ok", TRUE, <<>>)

ORGANIZATION_PERMISSIONS ==
    << <<"organizations", "DescribeOrganization">>,
       <<"organizations", "ListAccounts">>,
       <<"organizations", "ListOrganizationalUnitsForParent">>,
       <<"organizations", "ListPolicies">>,
       <<"organizations", "DescribePolicy">> >>

IAM_PERMISSIONS ==
    << <<"iam", "ListRoles">>,
       <<"iam", "GetRole">>,
       <<"iam", "ListRolePolicies">>,
       <<"iam", "GetRolePolicy">>,
       <<"iam", "ListAttachedRolePolicies">> >>

NETWORK_PERMISSIONS ==
    << <<"ec2", "DescribeVpcs">>,
       <<"ec2", "DescribeSubnets">>,
       <<"ec2", "DescribeSecurityGroups">>,
       <<"ec2", "DescribeTransitGateways">>,
       <<"ec2", "DescribeVpcPeeringConnections">> >>

RAM_PERMISSIONS ==
    << <<"ram", "GetResourceShares">>,
       <<"ram", "ListResources">> >>

\* the entries of test_calls that are "lambda: None"
SkippedCalls ==
    {<<"organizations", "ListOrganizationalUnitsForParent">>,
     <<"organizations", "DescribePolicy">>,
     <<"iam", "GetRole">>,
     <<"iam", "ListRolePolicies">>,
     <<"iam", "GetRolePolicy">>,
     <<"iam", "ListAttachedRolePolicies">>}

PermissionGroups == {"organization", "iam", "network", "ram"}

\* the list check_permissions collects for the groups it includes
Permissions(include) ==
    (IF "organization" \in include THEN ORGANIZATION_PERMISSIONS ELSE <<>>)
    \o (IF "iam" \in include THEN IAM_PERMISSIONS ELSE <<>>)
    \o (IF "network" \in include THEN NETWORK_PERMISSIONS ELSE <<>>)
    \o (IF "ram" \in include THEN RAM_PERMISSIONS ELSE <<>>)

\* the outcomes of one permission probe: the call succeeds; ClientError with
\* an access-denied code, with AWSOrganizationsNotInUseException, with another
\* code; another exception from the call; session.client(service) raises
ProbeOutcomes == {"ok", "denied", "not_in_use", "api_error", "error",
                  "client_fails"}

\* a probe that does not succeed: its place in the list and how it fails
Fault(at, kind, m) == [at |-> at, kind |-> kind, message |-> m]

\* the outcome of the probe at place p: that of the first fault naming p
OutcomeAt(faults, p) ==
    LET hits == {i \in 1..Len(faults) : faults[i].at = p}
    IN  IF hits = {} THEN Fault(p, "ok", <<>>)
        ELSE faults[CHOOSE i \in hits : \A j \in hits : i <= j]

\* AWSSetup._check_permission: client is bound inside the try, so when
\* session.client raises, "except client.exceptions.ClientError" reads an
\* unbound local
check_permission(service, action, kind, m) ==
    CASE kind = "client_fails" ->
            [raised |-> "UnboundLocalError",
             check |-> Check(service, action, FALSE, None)]
      [] <<service, action>> \in SkippedCalls \/ kind = "ok" ->
            [raised |-> "none", check |-> Check(service, action, TRUE, None)]
      [] kind = "denied" ->
            [raised |-> "none",
             check |-> Check(service, action, FALSE,
                             Some(<<"Access denied: ", "AccessDenied">>))]
      [] kind = "not_in_use" ->
            [raised |-> "none",
             check |-> Check(service, action, TRUE,
                             Some(<<"Organizations not enabled">>))]
      [] kind = "api_error" ->
            [raised |-> "none",
             check |-> Check(service, action, TRUE,
                             Some(<<"API error: ", "Throttling">>))]
      [] OTHER ->
            [raised |-> "none", check |-> Check(service, action, FALSE, Some(m))]

\* the loop of check_permissions from place p on: the checks appended so far
\* and the exception that ended the loop, if any
RECURSIVE CheckEach(_, _, _, _)
CheckEach(permissions, faults, p, checks) ==
    IF p > Len(permissions) THEN [raised |-> "none", checks |-> checks]
    ELSE LET o == OutcomeAt(faults, p)
             r == check_permission(permissions[p][1], permissions[p][2],
                                   o.kind, o.message)
         IN  IF r.raised # "none" THEN [raised |-> r.raised, checks |-> checks]
             ELSE CheckEach(permissions, faults, p + 1, Append(checks, r.check))

\* AWSSetup.check_permissions
check_permissions(kind, m, alias, organization, include, faults) ==
    LET status == check_credentials(kind, m, alias, organization)
        r == CheckEach(Permissions(include), faults, 1, <<>>)
    IN  IF ~status.authenticated THEN status
        ELSE [status EXCEPT !.raised = r.raised, !.checks = r.checks]

\* what a probe was called with
SetupInput(secret, kind, m, alias, organization, include, faults) ==
    [secret |-> secret, kind |-> kind, message |-> m, alias |-> alias,
     organization |-> organization, include |-> include, faults |-> faults]

\* a call of a probe: its name, its input and what it did
SetupCall(name, input, outcome) ==
    [name |-> name, input |-> input, outcome |-> outcome]

NoSetupCall ==
    SetupCall("none", SetupInput(None, "ok", <<>>, "ok", "none", {}, <<>>),
              Status("none", FALSE, None, FALSE, FALSE, <<>>))

\* the faults a run of check_permissions may meet
Faults ==
    SeqUpTo({Fault(p, k, m) : p \in 1..Len(Permissions(PermissionGroups)),
                              k \in ProbeOutcomes \ {"ok"}, m \in {<<"m">>}},
            MaxFaults)

\* the command line constructs a probe object for one command and calls it
\* there: no probe has been called on the object yet
Constructed == setup_last.name = "none"

Neo4jSetup_check_connection ==
    \E password \in Secrets, kind \in Neo4jOutcomes, m \in Messages :
        /\ Constructed
        /\ setup_last' =
              SetupCall("check_connection",
                        SetupInput(password, kind, m, "ok", "none", {}, <<>>),
                        check_connection(password, kind, m))
        /\ UNCHANGED <<state_file, state_dir, p1vars, p2vars, aqvars>>
        /\ UNCHANGED <<threads, scan_last>>

AWSSetup_check_credentials ==
    \E kind \in AwsOutcomes, m \in Messages,
       alias \in SubOutcomes, organization \in SubOutcomes :
        /\ Constructed
        /\ setup_last' =
              SetupCall("check_credentials",
                        SetupInput(None, kind, m, alias, organization, {}, <<>>),
                        check_credentials(kind, m, alias, organization))
        /\ UNCHANGED <<state_file, state_dir, p1vars, p2vars, aqvars>>
        /\ UNCHANGED <<threads, scan_last>>

GitHubSetup_check_token ==
    \E token \in Secrets, kind \in GithubOutcomes, m \in Messages,
       organization \in OrgOutcomes :
        /\ Constructed
        /\ setup_last' =
              SetupCall("check_token",
                        SetupInput(token, kind, m, "ok", organization, {}, <<>>),
                        check_token(token, kind, m, organization))
        /\ UNCHANGED <<state_file, state_dir, p1vars, p2vars, aqvars>>
        /\ UNCHANGED <<threads, scan_last>>

\* _setup_aws calls check_permissions on the object whose check_credentials
\* has just reported valid credentials
AWSSetup_check_permissions ==
    \E kind \in {"ok", "identity_fails"}, include \in SUBSET PermissionGroups,
       faults \in Faults :
        /\ \/ Constructed
           \/ /\ setup_last.name = "check_credentials"
              /\ setup_last.outcome.authenticated
        /\ setup_last' =
              SetupCall("check_permissions",
                        SetupInput(None, kind, <<"m">>, "ok", "ok", include, faults),
                        check_permissions(kind, <<"m">>, "ok", "ok", include, faults))
        /\ UNCHANGED <<state_file, state_dir, p1vars, p2vars, aqvars>>
        /\ UNCHANGED <<threads, scan_last>>

----------------------------------------------------------------------------
(* AWSScanner *)

total_steps == 5

\* the methods of AWSOrganizationDiscovery that scan calls
Discoveries ==
    {"discover_organization_structure", "discover_network_topology",
     "discover_ram_shares", "discover_cross_account_roles",
     "discover_iam_roles"}

\* what a scan meets: nothing fails, the discovery module cannot be
\* imported, or one of the discovery methods raises
ScanFailures == {"none", "import"} \cup Discoveries

\* the data the discovery returns: the organization structure and the
\* network topology, each with or without its list
OrgData == {LoadMap(a) : a \in WithKey("accounts", SeqUpTo(Accounts, MaxAccounts))}

NetworkData == {LoadMap(v) : v \in WithKey("vpcs", SeqUpTo(Vpcs, MaxVpcs))}

\* the value that forgets the factor
Percent_Fraction(current_step) == current_step \div total_steps

\* (current_step / total_steps) * 100, the value update_progress reports; the
\* float of step 3 lies 1e-14 above 60, which changes no comparison made here
Percent(current_step) == (current_step * 100) \div total_steps

\* something scan does that its caller can observe: a call of a discovery
\* method (value 0) or a call of progress_callback with a value
Event(kind, name, value) == [kind |-> kind, name |-> name, value |-> value]

\* the discovery methods step k of scan calls, in order
StepCalls(k, include_network, include_iam) ==
    CASE k = 1 -> <<"discover_organization_structure">>
      [] k = 2 -> IF include_network THEN <<"discover_network_topology">>
                  ELSE <<>>
      [] k = 3 -> <<"discover_ram_shares">>
      [] k = 4 -> IF include_iam
                  THEN <<"discover_cross_account_roles", "discover_iam_roles">>
                  ELSE <<>>
      [] OTHER -> <<>>

\* the entries step k puts into result
StepEntries(k, include_network, include_iam, org_data, network_data) ==
    CASE k = 1 ->
            << <<"organization", GetOr(org_data, "organization", <<>>)>>,
               <<"accounts", GetOr(org_data, "accounts", <<>>)>>,
               <<"organizational_units", GetOr(org_data, "organizational_units", <<>>)>>,
               <<"scps", GetOr(org_data, "scps", <<>>)>> >>
      [] k = 2 ->
            IF include_network
            THEN << <<"vpcs", GetOr(network_data, "vpcs", <<>>)>>,
                    <<"subnets", GetOr(network_data, "subnets", <<>>)>>,
                    <<"transit_gateways", GetOr(network_data, "transit_gateways", <<>>)>>,
                    <<"peering_connections", GetOr(network_data, "peering_connections", <<>>)>> >>
            ELSE <<>>
      [] k = 3 -> << <<"ram_shares", <<>>>> >>
      [] k = 4 ->
            IF include_iam
            THEN << <<"cross_account_roles", <<>>>>, <<"iam_roles", <<>>>> >>
            ELSE <<>>
      [] OTHER ->
            << <<"scan_metadata",
                 [scan_time |-> "utcnow", profile |-> "profile",
                  regions |-> <<>>, include_iam |-> include_iam,
                  include_network |-> include_network]>> >>

\* a call of scan: its inputs, whether it raised, the events in the order
\* they happened, and the result it returned (None when it raised)
ScanCall(called, include_network, include_iam, callback, failing, raised, events, scan_result) ==
    [called |-> called, include_network |-> include_network,
     include_iam |-> include_iam, callback |-> callback,
     failing |-> failing, raised |-> raised, events |-> events,
     result |-> scan_result]

NoScanCall == ScanCall(FALSE, FALSE, FALSE, FALSE, "none", FALSE, <<>>, None)

\* the body of scan from step k on, after current_step = k - 1 steps
RECURSIVE ScanFrom(_, _, _, _, _, _, _, _, _)
ScanFrom(k, include_network, include_iam, callback, failing, org_data, network_data, events, entries) ==
    IF k > total_steps
    THEN ScanCall(TRUE, include_network, include_iam, callback, failing,
                  FALSE, events, Some(LoadMap(entries)))
    ELSE LET calls == StepCalls(k, include_network, include_iam)
             bad   == {i \in 1..Len(calls) : calls[i] = failing}
             upto  == IF bad = {} THEN Len(calls)
                      ELSE CHOOSE i \in bad : \A j \in bad : i <= j
             made  == [i \in 1..upto |-> Event("call", calls[i], 0)]
         IN  IF bad # {}
             THEN ScanCall(TRUE, include_network, include_iam, callback,
                           failing, TRUE, events \o made, None)
             ELSE ScanFrom(k + 1, include_network, include_iam, callback,
                           failing, org_data, network_data,
                           events \o made \o
                             (IF callback
                              THEN <<Event("progress", "progress_callback", Percent(k))>>
                              ELSE <<>>),
                           entries \o StepEntries(k, include_network, include_iam,
                                                  org_data, network_data))

\* AWSScanner.scan, called once on the scanner the scan command constructs
scan(include_network, include_iam, callback, failing, org_data, network_data) ==
    /\ ~scan_last.called
    /\ scan_last' =
          IF failing = "import"
          THEN ScanCall(TRUE, include_network, include_iam, callback,
                        failing, TRUE, <<>>, None)
          ELSE ScanFrom(1, include_network, include_iam, callback, failing,
                        org_data, network_data, <<>>, <<>>)
    /\ UNCHANGED <<state_file, state_dir, p1vars, p2vars, aqvars>>
    /\ UNCHANGED <<threads, setup_last>>

----------------------------------------------------------------------------
\* no request thread runs, no probe and no scan has been called
XIdle ==
    /\ threads = [t \in Threads |-> NoThread]
    /\ setup_last = NoSetupCall
    /\ scan_last = NoScanCall

P2Idle ==
    /\ state = [s \in Servers |-> None]
    /\ live = {}
    /\ response = NoResponse
    /\ last = NoRequest

\* a Phase1Mapper constructed on an existing scan file; the output path and
\* its directory do not exist yet
InitP1 ==
    /\ scan_file \in ScanFiles
    /\ self_state = None
    /\ sys_path = <<>>
    /\ completed = FALSE
    /\ result = NoCall
    /\ state_file = None
    /\ state_dir = FALSE
    /\ P2Idle
    /\ AQIdle
    /\ XIdle

NextP1 ==
    \/ \E io \in OpenOutcomes : run(io)
    \/ \E io \in OpenOutcomes : save_state(io)

SpecP1 == InitP1 /\ [][NextP1]_vars

----------------------------------------------------------------------------
(* State files written by hand or by an earlier tool *)

Zone1 ==
    [id |-> <<"s", "z", "-", "1">>, name |-> <<"P">>, description |-> <<"z">>]

\* a pending proposal, with or without an id
FileProposals ==
    {[type |-> "tenant_grouping", description |-> <<"g">>, status |-> "pending"]}
    \cup {[id |-> i, type |-> "tenant_grouping", description |-> <<"g">>,
            status |-> "pending"] : i \in FileIds}

\* the empty document, a document without a proposals key, and documents
\* with up to MaxProposals proposals
FileDocuments ==
    {<<>>}
    \cup {yaml_dump([security_zones |-> <<Zone1>>])}
    \cup {yaml_dump([security_zones |-> <<Zone1>>, proposals |-> ps]) :
            ps \in SeqUpTo(FileProposals, MaxProposals)}

P1Idle ==
    /\ scan_file = None
    /\ self_state = None
    /\ sys_path = <<>>
    /\ completed = FALSE
    /\ result = NoCall

\* one Phase2Server constructed on an existing state file
Init ==
    /\ \E lines \in FileDocuments :
          /\ state_file = Some(lines)
          /\ state = [s \in Servers |->
                        IF s = "A" THEN yaml_safe_load(lines) ELSE None]
    /\ state_dir = TRUE
    /\ live = {"A"}
    /\ response = NoResponse
    /\ last = NoRequest
    /\ P1Idle
    /\ AQIdle
    /\ XIdle

Next ==
    \E s \in Servers :
        \/ \E id \in RequestIds, io \in IOOutcomes : accept_proposal(s, id, io)
        \/ \E id \in RequestIds, io \in IOOutcomes : reject_proposal(s, id, io)
        \/ index(s)
        \/ get_state(s)
        \/ get_proposals(s)
        \/ Restart(s)

Spec == Init /\ [][Next]_vars

\* two Phase2Server instances on one state file, no I/O failure
InitTwo ==
    /\ \E lines \in FileDocuments : state_file = Some(lines)
    /\ state = [s \in Servers |-> None]
    /\ state_dir = TRUE
    /\ live = {}
    /\ response = NoResponse
    /\ last = NoRequest
    /\ P1Idle
    /\ AQIdle
    /\ XIdle

NextTwo ==
    \E s \in Servers :
        \/ Construct(s)
        \/ \E id \in RequestIds : accept_proposal(s, id, "ok")
        \/ \E id \in RequestIds : reject_proposal(s, id, "ok")

SpecTwo == InitTwo /\ [][NextTwo]_vars

\* the pipeline: Phase1Mapper runs and saves the state file, a Phase2Server is
\* constructed on that file and serves accept/reject requests; no I/O failure
NextPipe ==
    \/ run("ok")
    \/ save_state("ok")
    \/ Construct("A")
    \/ \E id \in RequestIds : accept_proposal("A", id, "ok")
    \/ \E id \in RequestIds : reject_proposal("A", id, "ok")

SpecPipe == InitP1 /\ [][NextPipe]_vars

\* an AnalystQuery instance constructed with some config
AQConstructed ==
    /\ config \in Configs
    /\ driver = None
    /\ connections = <<>>
    /\ aq_last = NoAQCall
    /\ state_file = None
    /\ state_dir = FALSE
    /\ P1Idle
    /\ P2Idle
    /\ XIdle

\* the instance is asked one of the questions, and _translate_basic is
\* called on it
InitQuery == question \in Questions /\ AQConstructed

NextQuery ==
    \/ \E db \in DbOutcomes : execute(db)
    \/ test_translate_basic

SpecQuery == InitQuery /\ [][NextQuery]_vars

\* the life of the instance's connection: queries, close() and with blocks
InitConn == question \in SampleQuestions /\ AQConstructed

NextConn ==
    \/ \E db \in DbOutcomes : execute(db)
    \/ close
    \/ enter
    \/ \E exc \in BOOLEAN : exit(exc)

SpecConn == InitConn /\ [][NextConn]_vars

\* the request threads of server "A"
NextThreads ==
    \E t \in Threads :
        \/ \E id \in RequestIds : SetStatus(t, "accept", "accepted", id)
        \/ \E id \in RequestIds : SetStatus(t, "reject", "rejected", id)
        \/ OpenForWrite(t)
        \/ DumpState(t)

\* server "A" constructed on a state file written by hand, or saved by
\* Phase1Mapper under its header
InitThreads ==
    /\ \E lines \in FileDocuments \cup {Header \o d : d \in FileDocuments} :
          /\ state_file = Some(lines)
          /\ state = [s \in Servers |->
                        IF s = "A" THEN yaml_safe_load(lines) ELSE None]
    /\ state_dir = TRUE
    /\ live = {"A"}
    /\ response = NoResponse
    /\ last = NoRequest
    /\ P1Idle
    /\ AQIdle
    /\ XIdle

SpecThreads == InitThreads /\ [][NextThreads]_vars

\* nothing has been constructed or called
InitIdle ==
    /\ state_file = None
    /\ state_dir = FALSE
    /\ P1Idle
    /\ P2Idle
    /\ AQIdle
    /\ XIdle

\* the setup probes, each called on whatever its client does
NextSetup ==
    \/ Neo4jSetup_check_connection
    \/ AWSSetup_check_credentials
    \/ GitHubSetup_check_token
    \/ AWSSetup_check_permissions

SpecSetup == InitIdle /\ [][NextSetup]_vars

\* scans of an AWSScanner, with and without a progress callback
NextScan ==
    \E include_network \in BOOLEAN, include_iam \in BOOLEAN,
       callback \in BOOLEAN, failing \in ScanFailures,
       org_data \in OrgData, network_data \in NetworkData :
        scan(include_network, include_iam, callback, failing,
             org_data, network_data)

SpecScan == InitIdle /\ [][NextScan]_vars

----------------------------------------------------------------------------
(* Properties of Phase2Server *)

Decisions == {"accept", "reject"}

Requested(op) == IF op = "accept" THEN "accepted" ELSE "rejected"

\* the proposals of a loaded state; none when the state is None
ProposalsOf(st) == IF st = None THEN <<>> ELSE GetOr(st[1], "proposals", <<>>)

\* the proposals a server constructed on the state file now would see
ProposalsOnDisk ==
    IF state_file = None THEN <<>> ELSE ProposalsOf(yaml_safe_load(state_file[1]))

\* C1: when a request names an id that a proposal of the server's state
\* carries and the file write succeeds, the request answers ok, the proposal
\* the id resolves to goes from pending to the requested status, and the
\* state file holds that status when the call returns.
C1_DecisionApplied ==
    LET ps == ProposalsOf(state[last.server])
        i  == FirstMatch(ps, last.id)
    IN  (last.op \in Decisions /\ last.io = "ok" /\ i # 0)
        => /\ response = Ok
           /\ last.wrote
           /\ last.before = Some("pending") =>
                 /\ ps[i].status = Requested(last.op)
                 /\ Len(ProposalsOnDisk) >= i
                 /\ Get(ProposalsOnDisk[i], "id") = Some(last.id)
                 /\ ProposalsOnDisk[i].status = Requested(last.op)

C1_Witness ==
    /\ last.op = "accept"
    /\ last.before = Some("pending")
    /\ response = Ok
    /\ \E i \in 1..Len(ProposalsOnDisk) :
          /\ Get(ProposalsOnDisk[i], "id") = Some(last.id)
          /\ ProposalsOnDisk[i].status = "accepted"

\* C2: a request for an id that no proposal of the in-memory state carries
\* answers not-found (404), writes no file, and leaves the in-memory state
\* and the state file as they were.
C2_AbsentIdNotFound ==
    [][\A s \in Servers, id \in RequestIds, io \in IOOutcomes :
          ( /\ accept_proposal(s, id, io) \/ reject_proposal(s, id, io)
            /\ FirstMatch(ProposalsOf(state[s]), id) = 0 )
          => /\ response' = NotFound
             /\ ~last'.wrote
             /\ state' = state
             /\ state_file' = state_file]_vars

\* C3: a proposal whose status is accepted or rejected keeps that status
\* through every later accept/reject request.
C3_StatusMonotonic ==
    [][\A s \in Servers, id \in RequestIds, io \in IOOutcomes :
          (accept_proposal(s, id, io) \/ reject_proposal(s, id, io))
          => \A i \in 1..Len(ProposalsOf(state[s])) :
                Get(ProposalsOf(state[s])[i], "status") \in
                    {Some("accepted"), Some("rejected")}
                => Get(ProposalsOf(state'[s])[i], "status") =
                   Get(ProposalsOf(state[s])[i], "status")]_vars

C5_PipelineUsable ==
    \A s \in live :
       LET ps == ProposalsOf(state[s])
           carried == {ps[j].id : j \in {k \in 1..Len(ps) : "id" \in DOMAIN ps[k]}}
       IN  \A i \in 1..Len(ps) :
              Get(ps[i], "status") = Some("pending")
              => \E r \in RequestIds \cup carried : FirstMatch(ps, r) = i

\* C6: with two instances on one file the last write wins: after an
\* acknowledged decision of one instance the file shows, for every proposal,
\* the status that instance holds, also where the other instance holds (and
\* has acknowledged) a different one.
C6_LastWriteWins ==
    (last.op \in Decisions /\ response = Ok)
    => \A t \in live \ {last.server} :
         \A i \in 1..Len(ProposalsOf(state[t])) :
            Get(ProposalsOf(state[t])[i], "status") #
                Get(ProposalsOf(state[last.server])[i], "status")
            => /\ i <= Len(ProposalsOnDisk)
               /\ Get(ProposalsOnDisk[i], "status") =
                  Get(ProposalsOf(state[last.server])[i], "status")

\* the lost update: A acknowledged accepting P1, B then acknowledged a
\* decision on P2, and the file shows P1's proposal as pending again
C6_Witness ==
    /\ live = Servers
    /\ last.server = "B" /\ last.op \in Decisions /\ last.id = P2
    /\ response = Ok
    /\ \E i \in 1..Len(ProposalsOf(state["A"])) :
          /\ Get(ProposalsOf(state["A"])[i], "id") = Some(P1)
          /\ ProposalsOf(state["A"])[i].status = "accepted"
          /\ ProposalsOnDisk[i].status = "pending"

----------------------------------------------------------------------------
(* Properties of Phase1Mapper *)

\* every organizational unit and every account of the scan result has an id
ValidScan(scan_data) ==
    /\ \A i \in 1..Len(GetOr(scan_data, "organizational_units", <<>>)) :
          "id" \in DOMAIN scan_data.organizational_units[i]
    /\ \A i \in 1..Len(GetOr(scan_data, "accounts", <<>>)) :
          "id" \in DOMAIN scan_data.accounts[i]

\* the last call was run() and it returned a state
RunReturned == result.call = "run" /\ result.raised = "none"

\* the proposals of the given type, in list order
OfType(proposals, type) == SelectSeq(proposals, LAMBDA p : p.type = type)

\* C7: on a valid scan result with N organizational units and M accounts a
\* run() that could read the file returns N zones and M subtenants, the i-th
\* zone from the i-th OU and the j-th subtenant from the j-th account.
C7_OnePerUnitInOrder ==
    (result.call = "run" /\ result.raised # "OSError"
        /\ scan_file # None /\ ValidScan(scan_file[1]))
    => /\ result.raised = "none"
       /\ LET st == result.value[1]
              ous == GetOr(scan_file[1], "organizational_units", <<>>)
              accounts == GetOr(scan_file[1], "accounts", <<>>)
          IN  /\ Len(st.security_zones) = Len(ous)
              /\ \A i \in 1..Len(ous) :
                    st.security_zones[i].source_ou_id = ous[i].id
              /\ Len(st.subtenants) = Len(accounts)
              /\ \A j \in 1..Len(accounts) :
                    st.subtenants[j].aws_accounts = <<accounts[j].id>>

C7_Witness ==
    /\ RunReturned
    /\ Len(result.value[1].security_zones) = 2
    /\ result.value[1].security_zones[1].source_ou_id = <<"o", "u", "-", "a">>
    /\ result.value[1].security_zones[2].source_ou_id = <<"a">>
    /\ Len(result.value[1].subtenants) = 2
    /\ result.value[1].subtenants[1].aws_accounts = <<<<"2">>>>
    /\ result.value[1].subtenants[2].aws_accounts = <<<<"1">>>>

\* C8: the state run() returns holds a tenant_grouping proposal iff it holds
\* more than one subtenant; there is then exactly one, it is pending, and its
\* subtenants list is the list of the subtenants' ids, one entry for each
\* subtenant in subtenant order.
C8_TenantGrouping ==
    RunReturned =>
       LET st == result.value[1]
           groupings == OfType(st.proposals, "tenant_grouping")
       IN  /\ Len(groupings) = (IF Len(st.subtenants) > 1 THEN 1 ELSE 0)
           /\ \A k \in 1..Len(groupings) :
                 /\ groupings[k].status = "pending"
                 /\ Len(groupings[k].subtenants) = Len(st.subtenants)
                 /\ \A j \in 1..Len(st.subtenants) :
                       groupings[k].subtenants[j] = st.subtenants[j].id

C8_Witness ==
    /\ RunReturned
    /\ Len(result.value[1].subtenants) = 2
    /\ Len(OfType(result.value[1].proposals, "tenant_grouping")) = 1
    /\ OfType(result.value[1].proposals, "tenant_grouping")[1].subtenants
         = <<<<"s", "t", "-", "1">>, <<"s", "t", "-", "2">>>>

\* C9: the state run() returns holds no network_domain proposal when the scan
\* result has no vpcs key or an empty vpcs list, and exactly one otherwise;
\* that proposal is pending and lists the VPC ids in input order; the
\* proposal list never holds more than two proposals.
C9_NetworkDomain ==
    RunReturned =>
       LET st == result.value[1]
           vpcs == GetOr(scan_file[1], "vpcs", <<>>)
           domains == OfType(st.proposals, "network_domain")
       IN  /\ Len(domains) = (IF Len(vpcs) >= 1 THEN 1 ELSE 0)
           /\ \A k \in 1..Len(domains) :
                 /\ domains[k].status = "pending"
                 /\ Len(domains[k].vpcs) = Len(vpcs)
                 /\ \A j \in 1..Len(vpcs) : domains[k].vpcs[j] = vpcs[j].id
           /\ Len(st.proposals) <= 2

C9_Witness ==
    /\ RunReturned
    /\ Len(result.value[1].proposals) = 2
    /\ Len(OfType(result.value[1].proposals, "network_domain")) = 1
    /\ OfType(result.value[1].proposals, "network_domain")[1].vpcs
         = <<<<"v", "2">>, <<"v", "1">>>>

\* C10: as long as no call of run() has returned a state, save_state raises
\* the "no state" RuntimeError and creates neither the file nor its parent
\* directory.
C10_SaveBeforeRun ==
    (result.call = "save_state" /\ ~completed)
    => /\ result.raised = "RuntimeError"
       /\ state_file = None
       /\ state_dir = FALSE

\* save_state refused after a run() that failed inside the mapping
C10_Witness ==
    /\ result.call = "save_state"
    /\ result.raised = "RuntimeError"
    /\ ~completed
    /\ Len(sys_path) > 0
    /\ state_file = None
    /\ state_dir = FALSE

\* C11: the state run() returns is the mapper's in-memory state; the file a
\* successful save_state leaves reloads to exactly that state; a Phase2Server
\* constructed on the file holds, until a decision changes it, that state
\* (same zones, subtenants and proposals, same order).
C11_RoundTrip ==
    /\ RunReturned => result.value = self_state
    /\ (result.call = "save_state" /\ result.raised = "none")
       => /\ state_file # None
          /\ yaml_safe_load(state_file[1]) = self_state
    /\ ("A" \in live /\ ~last.wrote)
       => /\ self_state # None
          /\ state["A"] = self_state
          /\ state["A"][1].security_zones = SecurityZones(scan_file[1])
          /\ state["A"][1].subtenants = Subtenants(scan_file[1])
          /\ state["A"][1].proposals = self_state[1].proposals

\* a server constructed on the saved file of a scan with two OUs, two
\* accounts and two proposals
C11_Witness ==
    /\ "A" \in live
    /\ ~last.wrote
    /\ state_file # None
    /\ yaml_safe_load(state_file[1]) = self_state
    /\ state["A"] = self_state
    /\ Len(state["A"][1].security_zones) = 2
    /\ Len(state["A"][1].subtenants) = 2
    /\ Len(state["A"][1].proposals) = 2
    /\ state["A"][1].tenants = <<>>

\* the elements of a sequence are pairwise distinct
Distinct(seq) ==
    \A i, j \in 1..Len(seq) : i # j => seq[i] # seq[j]

\* C12: when the OU ids of the scan result are pairwise distinct and its
\* account ids are pairwise distinct, the zone ids of the state run() returns
\* are pairwise distinct and so are its subtenant ids.
C12_IdsDistinct ==
    RunReturned =>
       LET st == result.value[1]
           ous == GetOr(scan_file[1], "organizational_units", <<>>)
           accounts == GetOr(scan_file[1], "accounts", <<>>)
       IN  /\ Distinct([i \in 1..Len(ous) |-> ous[i].id])
              => Distinct([i \in 1..Len(st.security_zones) |->
                              st.security_zones[i].id])
           /\ Distinct([j \in 1..Len(accounts) |-> accounts[j].id])
              => Distinct([j \in 1..Len(st.subtenants) |-> st.subtenants[j].id])

\* the subtenant half of C12 on its own
SubtenantIdsDistinct ==
    RunReturned =>
       LET st == result.value[1]
           accounts == GetOr(scan_file[1], "accounts", <<>>)
       IN  Distinct([j \in 1..Len(accounts) |-> accounts[j].id])
           => Distinct([j \in 1..Len(st.subtenants) |-> st.subtenants[j].id])

\* C13: a call of run() writes no file and changes nothing outside the
\* mapper instance: the state file, its directory, the scan file and the
\* module search path are after the call what they were before it.
C13_RunFrame ==
    [][(\E io \in OpenOutcomes : run(io))
          => /\ state_file' = state_file
             /\ state_dir' = state_dir
             /\ scan_file' = scan_file
             /\ sys_path' = sys_path]_vars

\* the file half of C13 on its own: run() writes no file
RunWritesNoFile ==
    [][(\E io \in OpenOutcomes : run(io))
          => /\ state_file' = state_file
             /\ state_dir' = state_dir
             /\ scan_file' = scan_file]_vars

----------------------------------------------------------------------------
(* Properties of AnalystQuery *)

\* the text, trimmed and with case ignored, starts with a reserved keyword
ReservedStart(text) ==
    LET t == Strip(text)
    IN  \E k \in 1..Len(cypher_keywords) :
           /\ Len(t) >= Len(cypher_keywords[k])
           /\ \A i \in 1..Len(cypher_keywords[k]) :
                 MapChar(t[i], LowerCase, UpperCase) = cypher_keywords[k][i]

\* entry i of the keyword table has a keyword inside the lower-cased text
EntryMatches(i, text) ==
    \E k \in 1..Len(patterns[i].keywords) :
        Contains(Lower(text), patterns[i].keywords[k])

\* an LLM provider is configured and enabled
LlmConfigured == config # None /\ config[1] # "disabled"

\* the last call was execute and it returned a result
Executed == aq_last.call = "execute" /\ aq_last.raised = "none"

\* C14: execute on a text with a reserved start calls neither translation,
\* hands the session nothing but the text as given, and returns the text as
\* the result's query text (a result without error means the session got
\* it); on every other text it calls translation, never hands the session the
\* text, and never returns the text as query text.
C14_Classification ==
    aq_last.call = "execute" =>
       IF ReservedStart(question)
       THEN /\ ~aq_last.llm
            /\ aq_last.translated = None
            /\ aq_last.sent \in {None, Some(question)}
            /\ aq_last.raised = "none" =>
                  /\ aq_last.result[1].cypher = Some(question)
                  /\ "error" \notin DOMAIN aq_last.result[1]
                        => aq_last.sent = Some(question)
       ELSE /\ aq_last.llm = LlmConfigured
            /\ aq_last.translated # None
            /\ aq_last.sent # Some(question)
            /\ aq_last.raised = "none" =>
                  aq_last.result[1].cypher # Some(question)

\* a query in mixed case between blanks went to the session as given
C14_Witness ==
    /\ question = ReturnPadded
    /\ Executed
    /\ aq_last.sent = Some(ReturnPadded)
    /\ aq_last.result[1].cypher = Some(ReturnPadded)
    /\ aq_last.translated = None

\* C15: execute on a question without reserved start and without any keyword
\* of the table, on an instance without enabled LLM, returns (does not
\* raise) a result with query text None, empty data, an error text and the
\* question; the session received nothing and no connection was created.
C15_Untranslatable ==
    ( /\ aq_last.call = "execute"
      /\ ~ReservedStart(question)
      /\ \A i \in 1..Len(patterns) : ~EntryMatches(i, question)
      /\ ~LlmConfigured )
    => /\ aq_last.raised = "none"
       /\ aq_last.result # None
       /\ aq_last.result[1].cypher = None
       /\ aq_last.result[1].data = <<>>
       /\ "error" \in DOMAIN aq_last.result[1]
       /\ aq_last.result[1].error # <<>>
       /\ aq_last.result[1].original_question = question
       /\ aq_last.sent = None
       /\ aq_last.conn = 0
       /\ connections = <<>>

C15_Witness ==
    /\ question = SomethingRandom
    /\ config = Some("disabled")
    /\ Executed
    /\ aq_last.result[1].cypher = None
    /\ aq_last.result[1].data = <<>>
    /\ aq_last.result[1].original_question = SomethingRandom
    /\ connections = <<>>

\* the message of the exception the database raised in the last call
RaisedMessage ==
    (CHOOSE o \in DbOutcomes : o.kind = aq_last.db).message

\* C16: when driver.session() or session.run() raises, execute raises
\* nothing and returns a result with the resolved query text (the question
\* itself, or the template translation gave), empty data, and the message of
\* the exception as error.
C16_ExecutionErrorCaught ==
    (aq_last.call = "execute" /\ aq_last.db \in {"session_fails", "run_fails"})
    => /\ aq_last.raised = "none"
       /\ aq_last.result # None
       /\ aq_last.result[1].cypher =
             (IF ReservedStart(question) THEN Some(question)
              ELSE aq_last.translated[1])
       /\ aq_last.result[1].cypher # None
       /\ aq_last.db = "run_fails" => aq_last.sent = aq_last.result[1].cypher
       /\ aq_last.result[1].data = <<>>
       /\ "error" \in DOMAIN aq_last.result[1]
       /\ aq_last.result[1].error = RaisedMessage

C16_Witness ==
    /\ question = ReturnOne
    /\ Executed
    /\ aq_last.db = "run_fails"
    /\ aq_last.sent = Some(ReturnOne)
    /\ aq_last.result[1].cypher = Some(ReturnOne)
    /\ aq_last.result[1].data = <<>>
    /\ aq_last.result[1].error = <<"Query failed">>

\* C17: every result execute returns has a cypher entry (None or a text), a
\* data list, and an explanation or an error; when the question has no
\* reserved start the result has original_question, equal to the question.
C17_ResultShape ==
    Executed =>
       /\ aq_last.result # None
       /\ LET r == aq_last.result[1]
          IN  /\ {"cypher", "data"} \subseteq DOMAIN r
              /\ r.cypher = None \/ Len(r.cypher) = 1
              /\ DOMAIN r.data = 1..Len(r.data)
              /\ "explanation" \in DOMAIN r \/ "error" \in DOMAIN r
              /\ ~ReservedStart(question) =>
                    /\ "original_question" \in DOMAIN r
                    /\ r.original_question = question
              /\ DOMAIN r \subseteq
                    {"cypher", "data", "explanation", "error", "original_question"}

\* a translated question answered with two records
C17_Witness ==
    /\ question = ShowAllAccounts
    /\ Executed
    /\ aq_last.result[1].cypher = Some(AccountsQuery)
    /\ Len(aq_last.result[1].data) = 2
    /\ "explanation" \in DOMAIN aq_last.result[1]
    /\ aq_last.result[1].original_question = ShowAllAccounts

\* the templates in table order
TableOrder ==
    <<AccountsQuery, ProductionQuery, VpcsQuery, RolesQuery, CrossAccountQuery,
      SecurityGroupsQuery, SubnetsQuery>>

\* C18: what _translate_basic returns is the template of the first entry, in
\* the order accounts, production, VPCs, IAM roles, cross-account, security
\* groups, subnets, that has a keyword inside the lower-cased question, and
\* None when no entry has one.
C18_FirstMatchWins ==
    aq_last.translated # None =>
       LET r == aq_last.translated[1]
           hits == {i \in 1..Len(TableOrder) : EntryMatches(i, question)}
       IN  /\ Len(patterns) = Len(TableOrder)
           /\ \A i \in 1..Len(TableOrder) : patterns[i].cypher = TableOrder[i]
           /\ hits = {} => r = None
           /\ \A i \in hits :
                 (\A j \in hits : i <= j) => r = Some(TableOrder[i])

\* a question with keywords of the IAM roles entry and of the cross-account
\* entry gets the IAM roles query
C18_Witness ==
    /\ question = CrossAccountRoles
    /\ aq_last.call = "_translate_basic"
    /\ EntryMatches(4, question)
    /\ EntryMatches(5, question)
    /\ aq_last.translated = Some(Some(RolesQuery))

\* the connections that are open
OpenConnections == {i \in 1..Len(connections) : connections[i] = "open"}

\* close() or __exit__ is called
Closing == close \/ \E exc \in BOOLEAN : exit(exc)

\* C19: after close() and after __exit__, whether or not the with block
\* raised, the instance holds no driver and no connection is open; close()
\* or __exit__ on an instance without driver calls close on no connection and
\* leaves driver and connections as they are.
C19_CloseIdempotent ==
    /\ [](aq_last.call \in {"close", "__exit__"}
            => driver = None /\ OpenConnections = {})
    /\ [][(Closing /\ driver = None)
            => /\ driver' = None
               /\ connections' = connections
               /\ aq_last'.conn = 0]_vars

\* a with block that raised after a query: __exit__ closed the connection
C19_Witness ==
    /\ aq_last.call = "__exit__"
    /\ aq_last.raised = "BlockError"
    /\ aq_last.conn = 1
    /\ connections = <<"closed">>
    /\ driver = None

\* a second close(): nothing to release
SecondClose ==
    /\ aq_last.call = "close"
    /\ aq_last.conn = 0
    /\ connections = <<"closed">>

\* C20: a constructed instance has opened no connection; at any time at most
\* one connection is open, and it is the one the instance holds; a query on
\* an instance that holds a connection uses that connection and creates
\* none; after close() no connection the instance opened is open.
C20_ConnectionOwnership ==
    /\ [](/\ aq_last = NoAQCall => connections = <<>> /\ driver = None
          /\ Cardinality(OpenConnections) <= 1
          /\ driver # None => OpenConnections = {driver[1]}
          /\ driver = None => OpenConnections = {}
          /\ aq_last.call = "close" => OpenConnections = {})
    /\ [][\A db \in DbOutcomes :
            (execute(db) /\ driver # None)
            => /\ driver' = driver
               /\ connections' = connections
               /\ aq_last'.conn \in {0, driver[1]}]_vars

\* a query after close(): a second connection, and the first stays closed
C20_Witness ==
    /\ connections = <<"closed", "open">>
    /\ driver = Some(2)
    /\ aq_last.call = "execute"
    /\ aq_last.conn = 2
    /\ aq_last.sent # None

----------------------------------------------------------------------------
(* Further properties of Phase2Server *)

\* C23: whatever state file the constructor loaded (the empty document and a
\* document without proposals key included), an accept/reject request whose
\* id no proposal of the state carries is answered with the not-found
\* response, never with a server error.
C23_UnknownIdNotFound ==
    ( /\ last.op \in Decisions
      /\ FirstMatch(ProposalsOf(state[last.server]), last.id) = 0 )
    => response = NotFound

\* C23 for the servers whose loaded state is a mapping
UnknownIdNotFoundOnMapping ==
    ( /\ last.op \in Decisions
      /\ state[last.server] # None
      /\ FirstMatch(ProposalsOf(state[last.server]), last.id) = 0 )
    => response = NotFound

\* the status of each proposal, None for a proposal without status
Statuses(proposals) == [i \in 1..Len(proposals) |-> Get(proposals[i], "status")]

\* the positions of the proposals that carry the id
Carrying(proposals, proposal_id) ==
    {i \in 1..Len(proposals) : Get(proposals[i], "id") = Some(proposal_id)}

\* an accept or reject request of server s for the id, whose file write
\* succeeds when it is reached
DecidesOk(s, proposal_id) ==
    \/ last'.op = "accept" /\ accept_proposal(s, proposal_id, "ok")
    \/ last'.op = "reject" /\ reject_proposal(s, proposal_id, "ok")

\* C25: a request that finds its proposal gives it the requested status,
\* whatever status it had, and leaves the status of every other proposal; the
\* file then shows the statuses of the memory; a request for the status the
\* proposal already has, on a file that shows the state of the memory, leaves
\* state and file as they are.
C25_Overwrite ==
    [][\A s \in Servers, id \in RequestIds :
          ( /\ last'.server = s
            /\ last'.id = id
            /\ Carrying(ProposalsOf(state[s]), id) # {}
            /\ DecidesOk(s, id) )
          => \E before \in {ProposalsOf(state[s])} :
             \E after \in {ProposalsOf(state'[s])} :
             \E i \in {CHOOSE k \in Carrying(before, id) :
                          \A j \in Carrying(before, id) : k <= j} :
                 /\ Len(after) = Len(before)
                 /\ after[i].status = Requested(last'.op)
                 /\ \A j \in 1..Len(before) :
                       j # i => Get(after[j], "status") = Get(before[j], "status")
                 /\ state_file' # None
                 /\ Statuses(ProposalsOf(yaml_safe_load(state_file'[1])))
                       = Statuses(after)
                 /\ ( /\ Get(before[i], "status") = Some(Requested(last'.op))
                      /\ state_file = Some(yaml_dump(state[s][1])) )
                    => /\ state' = state
                       /\ state_file' = state_file]_vars

\* a rejected proposal was accepted by the next request
C25_Witness ==
    /\ last.op = "accept"
    /\ last.before = Some("rejected")
    /\ response = Ok
    /\ \E i \in 1..Len(ProposalsOnDisk) :
          /\ Get(ProposalsOnDisk[i], "id") = Some(last.id)
          /\ ProposalsOnDisk[i].status = "accepted"
          /\ ProposalsOf(state[last.server])[i].status = "accepted"

\* d without the key k
Without(d, k) == [x \in (DOMAIN d) \ {k} |-> d[x]]

\* two documents differ in nothing but the status of proposal i
SameButStatus(before, after, i) ==
    /\ DOMAIN after = DOMAIN before
    /\ \A k \in (DOMAIN before) \ {"proposals"} : after[k] = before[k]
    /\ Len(after.proposals) = Len(before.proposals)
    /\ \A j \in 1..Len(before.proposals) :
          IF j = i
          THEN /\ Without(after.proposals[j], "status")
                    = Without(before.proposals[j], "status")
               /\ DOMAIN after.proposals[j]
                    = (DOMAIN before.proposals[j]) \cup {"status"}
          ELSE after.proposals[j] = before.proposals[j]

\* a read endpoint is requested
Reads == \E s \in Servers : index(s) \/ get_state(s) \/ get_proposals(s)

\* C27: an accept/reject request for an id changes in memory nothing but the
\* status of the first proposal carrying the id (nothing at all when none
\* carries it); when its write succeeds the file holds the state of the
\* memory, so a file that showed the memory's state before differs from what
\* it shows after in that status only; index, get_state and get_proposals
\* change neither memory nor file.
C27_DecisionFrame ==
    [][/\ \A s \in Servers, id \in RequestIds, io \in IOOutcomes :
            ( /\ last'.server = s
              /\ last'.id = id
              /\ last'.io \in {io, "ok"}
              /\ state[s] # None
              /\ \/ last'.op = "accept" /\ accept_proposal(s, id, io)
                 \/ last'.op = "reject" /\ reject_proposal(s, id, io) )
            => \E hits \in {Carrying(ProposalsOf(state[s]), id)} :
                   /\ \A t \in Servers \ {s} : state'[t] = state[t]
                   /\ state'[s] # None
                   /\ IF hits = {}
                      THEN state' = state /\ state_file' = state_file
                      ELSE \E i \in {CHOOSE k \in hits : \A j \in hits : k <= j} :
                               /\ SameButStatus(state[s][1], state'[s][1], i)
                               /\ io = "ok" =>
                                     /\ state_file' # None
                                     /\ \E shown \in {yaml_safe_load(state_file'[1])} :
                                           /\ shown = state'[s]
                                           /\ yaml_safe_load(state_file[1]) = state[s]
                                              => SameButStatus(state[s][1], shown[1], i)
       /\ Reads => state' = state /\ state_file' = state_file]_vars

\* of two proposals with the same id the first was decided and the second
\* is pending, next to the zone of the file
C27_Witness ==
    /\ last.op \in Decisions
    /\ response = Ok
    /\ LET ps == ProposalsOnDisk
       IN  /\ Len(ps) = 2
           /\ Get(ps[1], "id") = Some(last.id)
           /\ Get(ps[2], "id") = Some(last.id)
           /\ ps[1].status = Requested(last.op)
           /\ ps[2].status = "pending"
    /\ yaml_safe_load(state_file[1])[1].security_zones = <<Zone1>>
    /\ yaml_safe_load(state_file[1]) = state[last.server]

\* C28: after an accept/reject request whose file write failed, the proposal
\* the request resolved to has in memory the status it had before the
\* request.
C28_AtomicDecision ==
    (last.op \in Decisions /\ last.io # "ok" /\ last.before # None)
    => LET ps == ProposalsOf(state[last.server])
       IN  Get(ps[FirstMatch(ps, last.id)], "status") = last.before

----------------------------------------------------------------------------
(* Further properties of AnalystQuery *)

\* C26: execute raises nothing, whatever the database side does; when the
\* creation of the connection fails it returns a result with the query
\* text, empty data and an error.
C26_NeverRaises ==
    aq_last.call = "execute"
    => /\ aq_last.raised = "none"
       /\ aq_last.db = "import_fails"
          => /\ aq_last.result # None
             /\ aq_last.result[1].cypher # None
             /\ aq_last.result[1].data = <<>>
             /\ "error" \in DOMAIN aq_last.result[1]

\* the entries of the keyword table that have a keyword inside the
\* lower-cased text
MatchingEntries(text) ==
    UNION {{i \in 1..Len(TableOrder) :
              \E k \in 1..Len(patterns[i].keywords) :
                  Contains(lower, patterns[i].keywords[k])} :
           lower \in {Lower(text)}}

\* the query execute resolves the text to when no LLM answers: the text
\* itself, the template of the first matching table entry, or None
Resolved(text) ==
    IF ReservedStart(text) THEN Some(text)
    ELSE CHOOSE query \in
            {IF hits = {} THEN None
             ELSE Some(TableOrder[CHOOSE i \in hits : \A j \in hits : i <= j]) :
             hits \in {MatchingEntries(text)}} : TRUE

----------------------------------------------------------------------------
(* Properties of the request threads *)

\* the requests that have been made
Started == {t \in Threads : threads[t].pc # "idle"}

\* every request made has returned ok, and no two name the same proposal
AllReturnedOk ==
    /\ Started # {}
    /\ \A t \in Started : threads[t].pc = "done" /\ threads[t].code = Ok.code
    /\ \A t, u \in Started : t # u => threads[t].id # threads[u].id

\* the status the file gives to the proposal a request named
StatusOnDisk(proposal_id) ==
    LET i == FirstMatch(ProposalsOnDisk, proposal_id)
    IN  IF i = 0 THEN None ELSE Get(ProposalsOnDisk[i], "status")

----------------------------------------------------------------------------
(* Properties of the setup probes *)

Probes == {"check_connection", "check_credentials", "check_token"}

\* the probe was constructed without the password or token it needs
SecretMissing ==
    /\ setup_last.name \in {"check_connection", "check_token"}
    /\ Missing(setup_last.input.secret)

\* the probe returned a status, did not touch the client when its secret is
\* missing, and reports failure with an error when the secret is missing or
\* the client failed
Reported ==
    /\ setup_last.outcome.raised = "none"
    /\ SecretMissing => ~setup_last.outcome.contacted
    /\ (SecretMissing \/ setup_last.input.kind # "ok") =>
          /\ ~setup_last.outcome.authenticated
          /\ setup_last.outcome.error # None

\* C21: check_connection, check_credentials and check_token never raise; with
\* a missing password/token they do not contact the client, and whenever the
\* secret is missing or the client call fails the status has
\* connected/authenticated = false and an error that is not None
C21_ProbesNeverThrow == setup_last.name \in Probes => Reported

\* the same for every outcome but a neo4j package that cannot be imported
ProbesReportWhenImported ==
    (/\ setup_last.name \in Probes
     /\ ~(/\ setup_last.name = "check_connection"
          /\ setup_last.input.kind = "import_fails"
          /\ ~SecretMissing))
        => Reported

\* check_permissions was called with valid credentials
PermissionsChecked ==
    /\ setup_last.name = "check_permissions"
    /\ setup_last.input.kind = "ok"

\* the status holds one check per required permission of the included
\* groups, in the order organization, IAM, network, RAM
OnePerPermission ==
    LET required == Permissions(setup_last.input.include)
        checks   == setup_last.outcome.checks
    IN  /\ setup_last.outcome.raised = "none"
        /\ Len(checks) = Len(required)
        /\ \A i \in 1..Len(required) :
              /\ checks[i].service = required[i][1]
              /\ checks[i].action = required[i][2]

\* C22: with valid credentials check_permissions never raises and returns
\* exactly one check per required permission of each included group, in the
\* order organization, IAM, network, RAM, however the single probes fail
C22_PermissionReport == PermissionsChecked => OnePerPermission

\* the same when every service client can be created
PermissionReportWhenClientsCreated ==
    (/\ PermissionsChecked
     /\ \A i \in 1..Len(setup_last.input.faults) :
           \/ setup_last.input.faults[i].kind # "client_fails"
           \/ setup_last.input.faults[i].at >
                 Len(Permissions(setup_last.input.include)))
        => OnePerPermission

----------------------------------------------------------------------------
(* Properties of AWSScanner *)

\* the places of the progress events in the events of the last scan
ProgressAt ==
    {i \in 1..Len(scan_last.events) : scan_last.events[i].kind = "progress"}

\* the values given to progress_callback, in order
ProgressValues ==
    LET picked == SelectSeq(scan_last.events, LAMBDA e : e.kind = "progress")
    IN  [i \in 1..Len(picked) |-> picked[i].value]

\* the discovery methods called before the n-th progress event and after
\* the one before it
CalledInStep(n) ==
    {scan_last.events[i].name :
        i \in {j \in 1..Len(scan_last.events) :
                 /\ scan_last.events[j].kind = "call"
                 /\ Cardinality({p \in ProgressAt : p < j}) = n - 1}}

\* the number of calls of a discovery method
TimesCalled(name) ==
    Cardinality({i \in 1..Len(scan_last.events) :
                    /\ scan_last.events[i].kind = "call"
                    /\ scan_last.events[i].name = name})

\* C24: a scan that succeeds calls the progress callback exactly five times,
\* once after each step, with strictly increasing values that end at 100,
\* whatever include_network and include_iam are; network discovery is called
\* and vpcs is in the result iff include_network, the two IAM discoveries
\* are called and iam_roles / cross_account_roles are in the result iff
\* include_iam
C24_ScanProgress ==
    (scan_last.called /\ ~scan_last.raised) =>
        LET keys == DOMAIN scan_last.result[1]
        IN  /\ scan_last.callback =>
                 /\ Len(ProgressValues) = 5
                 /\ \A i \in 1..(Len(ProgressValues) - 1) :
                       ProgressValues[i] < ProgressValues[i + 1]
                 /\ ProgressValues[Len(ProgressValues)] = 100
                 /\ CalledInStep(1) = {"discover_organization_structure"}
                 /\ CalledInStep(2) \subseteq {"discover_network_topology"}
                 /\ CalledInStep(3) = {"discover_ram_shares"}
                 /\ CalledInStep(4) \subseteq {"discover_cross_account_roles",
                                               "discover_iam_roles"}
                 /\ CalledInStep(5) = {}
                 /\ CalledInStep(6) = {}
            /\ TimesCalled("discover_network_topology")
                  = (IF scan_last.include_network THEN 1 ELSE 0)
            /\ "vpcs" \in keys <=> scan_last.include_network
            /\ TimesCalled("discover_cross_account_roles")
                  = (IF scan_last.include_iam THEN 1 ELSE 0)
            /\ TimesCalled("discover_iam_roles")
                  = (IF scan_last.include_iam THEN 1 ELSE 0)
            /\ "iam_roles" \in keys <=> scan_last.include_iam
            /\ "cross_account_roles" \in keys <=> scan_last.include_iam

\* a scan with a callback and without network and IAM discovery has returned
C24_Witness ==
    /\ scan_last.called
    /\ ~scan_last.raised
    /\ scan_last.callback
    /\ ~scan_last.include_network
    /\ ~scan_last.include_iam
    /\ Len(ProgressValues) = 5


====
